---- MODULE Spec2Model ----
(***************************************************************************)
(* Model of the ERC-20 transfer resolution pipeline of crypto-odoo-sync    *)
(* (src/src/erc20.ts, getTransferRecords and the helpers it calls).        *)
(*                                                                         *)
(* A behaviour is one invocation of getTransferRecords against a fixed     *)
(* ledger snapshot, optionally followed by a second invocation with the    *)
(* same parameters (Rerun).  Every remote call is one step whose outcome   *)
(* (ok / rejected / timed out) is chosen by the environment.               *)
(***************************************************************************)
EXTENDS Integers, Sequences, FiniteSets, TLC

(***************************************************************************)
(* Bounds of the exploration                                               *)
(***************************************************************************)
\* highest head block number of a ledger snapshot
MaxBlock == 2
\* highest number of remote calls of one run that see a failed attempt
MaxFaultyCalls == 1

(***************************************************************************)
(* Program constants                                                       *)
(***************************************************************************)
CHUNK_SIZE == 10000
RPC_RETRY_TIMES == 2
\* Effect.forEach(..., { concurrency: 4 })
TimestampConcurrency == 4
\* milliseconds of "T23:59:59.999Z" past "T00:00:00.000Z"
EndOfDaySuffixMs == 86399999
MsPerDay == 86400000
\* Date.parse's NaN
NaN == -1

(***************************************************************************)
(* Inputs                                                                  *)
(***************************************************************************)
\* calendar dates Date.parse accepts, by day since the epoch
ValidDates == << "1970-01-01", "1970-01-02" >>
DateStrings == {ValidDates[i] : i \in DOMAIN ValidDates} \cup {"01/02/1970"}

\* addresses as the node's logs carry them, in checksum spelling
Wallet == "0xWallet"
Other == "0xOther"
Token == "0xToken"

\* String.prototype.toLowerCase on the addresses of the model
toLowerCase(address) ==
    CASE address = "0xWallet" -> "0xwallet"
      [] address = "0xOther" -> "0xother"
      [] address = "0xToken" -> "0xtoken"
      [] OTHER -> address

\* the spellings in which a profile may hold the wallet address
WalletSpellings == {Wallet, toLowerCase(Wallet)}

\* network keys offered to a run; only "mainnet" is in the chain table
Networks == {"mainnet", "nonet"}
\* "unset" stands for a parameter that is left out (undefined)
\* String.prototype.trim on the keys and journal names of the model
Trim(text) ==
    CASE text = " " -> ""
      [] text = " Bank" -> "Bank"
      [] OTHER -> text

\* a ?? fallback
OrElse(value, fallback) == IF value = "unset" THEN fallback ELSE value

\* the alchemyApiKey of a profile and the ALCHEMY_API_KEY of the environment
ProfileKeys == {"unset", "", " ", "key"}
EnvKeys == {"unset", "key"}

\* syncProgram, cli.ts lines 539-557: the backend arguments that the sync
\* command hands to getTransferRecords
syncBackendArguments(profileKey, envKey) ==
    LET chosen == OrElse(profileKey, envKey)
        trimmed == IF chosen = "unset" THEN "unset" ELSE Trim(chosen)
    IN  [rpcProvider |-> "unset",
         alchemyApiKey |-> IF trimmed = "" THEN "unset" ELSE trimmed]

\* what the sync command passes when neither profile nor environment has a key
DefaultBackend == syncBackendArguments("unset", "unset")

\* the backend arguments of getTransferRecords: those of the sync command
\* and those of a caller that names the provider
Backends ==
    {syncBackendArguments(p, e) : p \in ProfileKeys, e \in EnvKeys}
        \cup {[rpcProvider |-> p, alchemyApiKey |-> k] :
                p \in {"public", "alchemy"}, k \in {"unset", " ", "key"}}

Configs ==
    {[network |-> n, rpcProvider |-> b.rpcProvider, alchemyApiKey |-> b.alchemyApiKey] :
        n \in Networks, b \in Backends}

\* block timestamps of the snapshots: the first and last second of each day
\* that has a following day, and the first second of the last day
TimePoints ==
    {((i - 1) * MsPerDay) \div 1000 : i \in DOMAIN ValidDates}
        \cup {((i - 1) * MsPerDay + EndOfDaySuffixMs) \div 1000 : i \in 1..(Len(ValidDates) - 1)}

TokenDecimals == 6
TokenSymbol == "USDC"
Values == {1000000}
LogIndexes == {0, 1}

\* one transaction per block carries the block's Transfer logs
TxHashOf(b) == << "0xtx", b >>

\* A snapshot gives its head block number, its Transfer logs and the block
\* timestamps as steps: from block `start` on, blocks carry `time`, up to the
\* next step.  Timestamps never decrease along the chain.
\* the chains of n blocks, one step per block
BlockTimes(n) ==
    {[i \in 1..n |-> [start |-> i - 1, time |-> ts[i]]] :
        ts \in {t \in [1..n -> TimePoints] : \A i \in 1..(n - 1) : t[i] <= t[i + 1]}}

\* Transfer logs of the token that touch the wallet, as eth_getLogs reports them
LogUniverse(n) ==
    {[blockNumber |-> b, logIndex |-> li, transactionHash |-> TxHashOf(b),
      from |-> f, to |-> t, value |-> v] :
        b \in 0..(n - 1), li \in LogIndexes,
        f \in {Wallet, Other}, t \in {Wallet, Other}, v \in Values}

TouchesWallet(log) == log.from = Wallet \/ log.to = Wallet

\* no log, one log or a pair of logs: the properties relate one log to the
\* result or two logs to each other
UpToTwo(S) == {{}} \cup {{a, b} : a, b \in S}

\* no two logs at the same place of the same block
LogSets(n) ==
    {ls \in UpToTwo({l \in LogUniverse(n) : TouchesWallet(l)}) :
        \A a, b \in ls :
            (a.blockNumber = b.blockNumber /\ a.logIndex = b.logIndex) => a = b}

\* the fields of a decoded log that getTransferRecords requires
RequiredFields == {"transactionHash", "logIndex", "from", "to", "value"}

\* at most one log of a snapshot reaches the client with a required field
\* missing; such snapshots have a single block
BrokenSets(n, ls) ==
    {{}} \cup (IF n = 1 THEN {{[log |-> l, field |-> f]} : l \in ls, f \in RequiredFields}
               ELSE {})

Ledgers ==
    UNION {UNION {{[head |-> n - 1, steps |-> ts, logs |-> ls, broken |-> br] :
                        ts \in BlockTimes(n), br \in BrokenSets(n, ls)} :
                    ls \in LogSets(n)} :
            n \in 1..(MaxBlock + 1)}

\* snapshots longer than one chunk of fetchTransfers: the head is block
\* CHUNK_SIZE + 1; either every block is of the first day, or the genesis
\* block is and all later blocks are of the last day; the logs sit in the
\* genesis block and in the two blocks around the end of the first chunk
LongHead == CHUNK_SIZE + 1

LongBlockTimes ==
    LET first == CHOOSE t \in TimePoints : \A u \in TimePoints : t <= u
        last == CHOOSE t \in TimePoints : \A u \in TimePoints : u <= t
    IN  {<< [start |-> 0, time |-> first] >>,
         << [start |-> 0, time |-> first], [start |-> 1, time |-> last] >>}

LongLogSets ==
    {ls \in UpToTwo({l \in LogUniverse(LongHead + 1) :
                    /\ TouchesWallet(l)
                    /\ l.blockNumber \in {0, CHUNK_SIZE, CHUNK_SIZE + 1}
                    /\ l.logIndex = 0}) :
        \A a, b \in ls : a.blockNumber = b.blockNumber => a = b}

LongLedgers ==
    {[head |-> LongHead, steps |-> ts, logs |-> ls, broken |-> {}] :
        ts \in LongBlockTimes, ls \in LongLogSets}

\* a snapshot with more blocks to resolve than resolveBlockTimestamps
\* fetches at once: every block is of the first day and carries one
\* transfer to the wallet
BusyHead == TimestampConcurrency + 1

BusyLedgers ==
    LET first == CHOOSE t \in TimePoints : \A u \in TimePoints : t <= u
    IN  {[head |-> BusyHead,
          steps |-> << [start |-> 0, time |-> first] >>,
          logs |-> {l \in LogUniverse(BusyHead + 1) :
                        l.logIndex = 0 /\ l.from = Other /\ l.to = Wallet},
          broken |-> {}]}

\* ascending by (blockNumber, logIndex), the order of the chain
ChainOrder(S) ==
    CHOOSE p \in [1..Cardinality(S) -> S] :
        \A i, j \in DOMAIN p :
            i < j => \/ p[i].blockNumber < p[j].blockNumber
                     \/ /\ p[i].blockNumber = p[j].blockNumber
                        /\ p[i].logIndex < p[j].logIndex

Reverse(p) == [i \in DOMAIN p |-> p[Len(p) + 1 - i]]

\* the orders in which a node may list the logs of a snapshot
NodeOrders(S) == {ChainOrder(S), Reverse(ChainOrder(S))}

(***************************************************************************)
(* State                                                                   *)
(***************************************************************************)
VARIABLES
    ledger,       \* the ledger snapshot: block timestamps and Transfer logs
    order,        \* the order in which the node lists logs during this run
    params,       \* the parameters of getTransferRecords
    run,          \* the locals of the running getTransferRecords and its exit
    attempt,      \* failed attempts so far of the remote call being made
    lastOutcome,  \* outcome of the latest attempt of a remote call
    remoteCalls,  \* requests sent to the node by this run
    faults,       \* failed attempts seen by this run, by kind of call, and
                  \* the number of calls the environment may make fail
    runNo,        \* 1 for the first invocation, 2 for the repeated one
    prev,         \* the first invocation's order and records, once repeated
    sent,         \* requests sent to the node by this run, by call site
    sync,         \* the locals of the running sync command and its exit
    odoo,         \* the statement lines that Odoo holds, in creation order
    store,        \* the config store as the config file holds it
    setup         \* the latest setup command: what was asked for and how it ended

vars ==
    << ledger, order, params, run, attempt, lastOutcome, remoteCalls, faults, runNo, prev,
       sent, sync, odoo, store, setup >>

\* the state of the setup command and of the config file
setupVars == << store, setup >>

\* the state of the sync command and of Odoo
syncVars == << sync, odoo >>

\* the state of getTransferRecords and of the node
chainVars ==
    << ledger, order, params, run, attempt, lastOutcome, remoteCalls, faults, runNo, prev,
       sent >>

\* the call sites of remote calls, named by the position of the run
CallSites ==
    {"latest", "probeFrom", "probeTo", "decimals", "symbol", "incoming", "outgoing",
     "timestamps"}

NoneSent == [site \in CallSites |-> 0]

AttemptOutcomes == {"ok", "rejected", "timeout"}

(***************************************************************************)
(* The remote node                                                         *)
(***************************************************************************)
HeadNumber(l) == l.head

\* client.getBlock({ blockNumber }).timestamp
BlockTimestamp(l, b) ==
    LET at == CHOOSE i \in DOMAIN l.steps :
                /\ l.steps[i].start <= b
                /\ \A j \in DOMAIN l.steps : l.steps[j].start <= b => j <= i
    IN  l.steps[at].time

\* client.getBlock({ blockTag: "latest" })
LatestBlock(l) == [number |-> HeadNumber(l), timestamp |-> BlockTimestamp(l, HeadNumber(l))]

\* eth_getLogs with the indexed-argument filter of one direction
\* (the node compares the 20 bytes of an address, whatever its spelling)
MatchesArgs(log, args) ==
    /\ ("from" \in DOMAIN args => toLowerCase(log.from) = toLowerCase(args.from))
    /\ ("to" \in DOMAIN args => toLowerCase(log.to) = toLowerCase(args.to))

\* the log as the client hands it over: without the field it lost
Delivered(l, log) ==
    IF \E b \in l.broken : b.log = log
    THEN LET lost == (CHOOSE b \in l.broken : b.log = log).field
         IN  [f \in (DOMAIN log) \ {lost} |-> log[f]]
    ELSE log

queryTransferLogs(l, ord, fromBlock, toBlock, args) ==
    LET matching == SelectSeq(ord, LAMBDA log :
                        /\ log \in l.logs
                        /\ fromBlock <= log.blockNumber /\ log.blockNumber <= toBlock
                        /\ MatchesArgs(log, args))
    IN  [i \in DOMAIN matching |-> Delivered(l, matching[i])]

(***************************************************************************)
(* Pure helpers of erc20.ts                                                *)
(***************************************************************************)
\* Date.parse(`${date}T00:00:00.000Z`) in milliseconds, NaN when rejected
DateParseMs(date) ==
    IF \E i \in DOMAIN ValidDates : ValidDates[i] = date
    THEN ((CHOOSE i \in DOMAIN ValidDates : ValidDates[i] = date) - 1) * MsPerDay
    ELSE NaN

parseUtcDate(date, endOfDay) ==
    LET startMs == DateParseMs(date)
        timestampMs == IF startMs = NaN THEN NaN
                       ELSE startMs + (IF endOfDay THEN EndOfDaySuffixMs ELSE 0)
    IN  IF timestampMs = NaN
        THEN [ok |-> FALSE, value |-> 0]
        ELSE [ok |-> TRUE, value |-> timestampMs \div 1000]

\* new Date(timestamp * 1000).toISOString().slice(0, 10)
IsoDate(timestamp) == ValidDates[((timestamp * 1000) \div MsPerDay) + 1]

normalizeNetworkKey(network) == IF network = "ethereum" THEN "mainnet" ELSE network

\* the key of the chain table entry, "" when there is none
resolveChainOption(network) ==
    IF normalizeNetworkKey(network) = "mainnet" THEN "mainnet" ELSE ""

resolveAlchemyRpcUrl(network, apiKey) ==
    IF resolveChainOption(network) = "" THEN ""
    ELSE IF Trim(apiKey) = "" THEN ""
    ELSE "alchemy"

\* mutant of makeClient: without an Alchemy URL the public endpoint is used
makeClientFallsBack(network, rpcProvider, alchemyApiKey) ==
    LET chainKey == resolveChainOption(network)
    IN  IF chainKey = "" THEN [ok |-> FALSE, message |-> "UnsupportedNetwork"]
        ELSE [ok |-> TRUE, networkKey |-> chainKey, rpcMode |-> rpcProvider,
              rpcUrl |-> IF rpcProvider = "alchemy"
                            /\ resolveAlchemyRpcUrl(network, OrElse(alchemyApiKey, "")) # ""
                         THEN "alchemy" ELSE "public"]

makeClient(network, rpcProvider, alchemyApiKey) ==
    LET chainKey == resolveChainOption(network)
        rpcUrl == IF rpcProvider = "alchemy"
                  THEN resolveAlchemyRpcUrl(network, OrElse(alchemyApiKey, ""))
                  ELSE "public"
    IN  IF chainKey = "" THEN [ok |-> FALSE, message |-> "UnsupportedNetwork"]
        ELSE IF rpcUrl = "" THEN [ok |-> FALSE, message |-> "NoAlchemyKey"]
        ELSE [ok |-> TRUE, networkKey |-> chainKey, rpcUrl |-> rpcUrl, rpcMode |-> rpcProvider]

\* a property of a log as a template literal prints it; << >> stands for
\* the "undefined" that a missing one prints as
Printed(entry, field) ==
    IF field \in DOMAIN entry THEN << entry[field] >> ELSE << >>

\* `${entry.transactionHash}-${entry.logIndex}`
DedupKey(entry) == << Printed(entry, "transactionHash"), Printed(entry, "logIndex") >>

\* mutant of MapSet: every entry is appended
MapSetAppend(entries, entry) == Append(entries, entry)

\* Map.set: a new key is appended, a known key keeps its place
MapSet(entries, entry) ==
    IF \E i \in DOMAIN entries : DedupKey(entries[i]) = DedupKey(entry)
    THEN [i \in DOMAIN entries |->
            IF DedupKey(entries[i]) = DedupKey(entry) THEN entry ELSE entries[i]]
    ELSE Append(entries, entry)

\* mutant of Dedupe: the two lists are concatenated as they are
DedupeKeepAll(entries, acc) == acc \o entries

RECURSIVE Dedupe(_, _)
Dedupe(entries, acc) ==
    IF entries = << >> THEN acc
    ELSE Dedupe(Tail(entries), MapSet(acc, Head(entries)))

\* mutant of UniqueBlocks: one entry per log
RECURSIVE UniqueBlocksPerEvent(_, _)
UniqueBlocksPerEvent(logs, acc) ==
    IF logs = << >> THEN acc
    ELSE UniqueBlocksPerEvent(Tail(logs), Append(acc, Head(logs).blockNumber))

\* [...new Set(rawLogs.map(blockNumber))]
RECURSIVE UniqueBlocks(_, _)
UniqueBlocks(logs, acc) ==
    IF logs = << >> THEN acc
    ELSE UniqueBlocks(Tail(logs),
            IF \E i \in DOMAIN acc : acc[i] = Head(logs).blockNumber
            THEN acc ELSE Append(acc, Head(logs).blockNumber))

RECURSIVE Pow10(_)
Pow10(n) == IF n = 0 THEN 1 ELSE 10 * Pow10(n - 1)

\* mutant of SignedAmount: the raw value is not scaled by the decimals
SignedAmountUnscaled(value, decimals, positive) ==
    [whole |-> (IF positive THEN 1 ELSE -1) * value, frac |-> 0]

\* Number(formatUnits(value, decimals)) with its sign, as whole units and
\* the remaining fraction in raw units
SignedAmount(value, decimals, positive) ==
    LET sign == IF positive THEN 1 ELSE -1
    IN  [whole |-> sign * (value \div Pow10(decimals)),
         frac |-> sign * (value % Pow10(decimals))]

WellFormed(entry) ==
    {"logIndex", "transactionHash", "from", "to", "value"} \subseteq DOMAIN entry

ToRecord(entry, blockTimestamp, networkKey, decimals, symbol, wallet) ==
    [amount |-> SignedAmount(entry.value, decimals,
                             toLowerCase(entry.to) = toLowerCase(wallet)),
     amountRaw |-> entry.value,
     blockNumber |-> entry.blockNumber,
     date |-> IsoDate(blockTimestamp),
     from |-> entry.from,
     logIndex |-> entry.logIndex,
     network |-> networkKey,
     timestamp |-> blockTimestamp,
     to |-> entry.to,
     tokenAddress |-> Token,
     tokenSymbol |-> symbol,
     txHash |-> entry.transactionHash,
     uniqueId |-> << networkKey, entry.transactionHash, entry.logIndex >>]

\* the comparator handed to Array.prototype.sort
CompareRecords(a, b) ==
    IF a.timestamp = b.timestamp THEN a.logIndex - b.logIndex
    ELSE a.timestamp - b.timestamp

\* Array.prototype.sort is stable: an element goes behind everything that
\* does not compare greater
SortInsert(sorted, x) ==
    LET k == Cardinality({i \in DOMAIN sorted : CompareRecords(sorted[i], x) <= 0})
    IN  SubSeq(sorted, 1, k) \o << x >> \o SubSeq(sorted, k + 1, Len(sorted))

RECURSIVE SortRecords(_, _)
SortRecords(records, acc) ==
    IF records = << >> THEN acc
    ELSE SortRecords(Tail(records), SortInsert(acc, Head(records)))

\* mutant of MapFilterSort: one malformed log empties the whole batch
MapFilterSortAllOrNone(rawLogs, timestampByBlock, networkKey, decimals, symbol, wallet) ==
    IF \E i \in DOMAIN rawLogs : ~WellFormed(rawLogs[i]) THEN << >>
    ELSE LET mapped == [i \in DOMAIN rawLogs |->
                          ToRecord(rawLogs[i], timestampByBlock[rawLogs[i].blockNumber],
                                   networkKey, decimals, symbol, wallet)]
         IN  SortRecords(mapped, << >>)

\* rawLogs.map(...).filter(...).sort(...)
MapFilterSort(rawLogs, timestampByBlock, networkKey, decimals, symbol, wallet) ==
    LET kept == SelectSeq(rawLogs, LAMBDA entry :
                    entry.blockNumber \in DOMAIN timestampByBlock /\ WellFormed(entry))
        mapped == [i \in DOMAIN kept |->
                    ToRecord(kept[i], timestampByBlock[kept[i].blockNumber],
                             networkKey, decimals, symbol, wallet)]
    IN  SortRecords(mapped, << >>)

(***************************************************************************)
(* getTransferRecords: the synchronous code between two remote calls       *)
(***************************************************************************)
InitialRun ==
    [pc |-> "start", exit |-> "running", error |-> "", message |-> "", result |-> << >>,
     fromTimestamp |-> 0, toTimestamp |-> 0, networkKey |-> "", rpcUrl |-> "",
     latestBlock |-> [number |-> 0, timestamp |-> 0],
     left |-> 0, right |-> 0, fromBlock |-> 0, toBlock |-> 0,
     decimals |-> 0, symbol |-> "",
     current |-> 0, logs |-> << >>, incoming |-> << >>, rawLogs |-> << >>,
     uniqueBlocks |-> << >>, started |-> 0, inFlight |-> {},
     fetchAttempt |-> << >>, timestampByBlock |-> << >>,
     totalChunks |-> 0, chunkIndex |-> 0,
     \* history: the log queries of this run that returned, in the order they returned
     answered |-> << >>,
     \* history: some timestamp has arrived while the fetch of a block listed before
     \* it was still in flight
     overtaken |-> FALSE]

\* the effect succeeds with the given records
Succeed(r, records) ==
    [r EXCEPT !.pc = "done", !.exit = "success", !.result = records]

\* Effect.fail(new ChainError(...)): a failure in the typed error channel
Fail(r, message) ==
    [r EXCEPT !.pc = "done", !.exit = "fail", !.error = "ChainError", !.message = message]

\* throw new ChainError(...) inside Effect.sync: the error surfaces as a defect
Die(r, message) ==
    [r EXCEPT !.pc = "done", !.exit = "die", !.error = "ChainError", !.message = message]

\* mutant of Begin: the comparison of the two dates is left out
BeginUncompared(r, p) ==
    LET from == parseUtcDate(p.fromDate, FALSE)
        to == parseUtcDate(p.toDate, TRUE)
        made == makeClient(p.network, OrElse(p.rpcProvider, "public"), p.alchemyApiKey)
    IN  IF ~from.ok THEN Die(r, "InvalidDate")
        ELSE IF ~to.ok THEN Die(r, "InvalidDate")
        ELSE IF ~made.ok
             THEN Die([r EXCEPT !.fromTimestamp = from.value, !.toTimestamp = to.value],
                      made.message)
        ELSE [r EXCEPT !.pc = "latest",
                       !.fromTimestamp = from.value, !.toTimestamp = to.value,
                       !.networkKey = made.networkKey, !.rpcUrl = made.rpcUrl]

\* lines 373-389: parse both dates, compare them, build the client
Begin(r, p) ==
    LET from == parseUtcDate(p.fromDate, FALSE)
        to == parseUtcDate(p.toDate, TRUE)
        made == makeClient(p.network, OrElse(p.rpcProvider, "public"), p.alchemyApiKey)
    IN  IF ~from.ok THEN Die(r, "InvalidDate")
        ELSE IF ~to.ok THEN Die(r, "InvalidDate")
        ELSE IF from.value > to.value
             THEN Fail([r EXCEPT !.fromTimestamp = from.value, !.toTimestamp = to.value],
                       "InvertedRange")
        ELSE IF ~made.ok
             THEN Die([r EXCEPT !.fromTimestamp = from.value, !.toTimestamp = to.value],
                      made.message)
        ELSE [r EXCEPT !.pc = "latest",
                       !.fromTimestamp = from.value, !.toTimestamp = to.value,
                       !.networkKey = made.networkKey, !.rpcUrl = made.rpcUrl]

\* mutant of BeginTimestamps: every block is fetched at once
BeginTimestampsAllAtOnce(r) ==
    LET blocks == UniqueBlocks(r.rawLogs, << >>)
    IN  [r EXCEPT !.pc = "timestamps", !.uniqueBlocks = blocks, !.started = Len(blocks),
                  !.inFlight = {blocks[i] : i \in 1..Len(blocks)},
                  !.fetchAttempt = [b \in {blocks[i] : i \in 1..Len(blocks)} |-> 0]]

\* lines 430-432: the distinct blocks of the raw logs, the first
\* TimestampConcurrency of them fetched at once
BeginTimestamps(r) ==
    LET blocks == UniqueBlocks(r.rawLogs, << >>)
        first == IF Len(blocks) < TimestampConcurrency THEN Len(blocks)
                 ELSE TimestampConcurrency
    IN  [r EXCEPT !.pc = "timestamps", !.uniqueBlocks = blocks, !.started = first,
                  !.inFlight = {blocks[i] : i \in 1..first},
                  !.fetchAttempt = [b \in {blocks[i] : i \in 1..first} |-> 0]]

\* mutant of AfterWalletTransfers: the outgoing logs are merged first
AfterWalletTransfersOutgoingFirst(r, incoming, outgoing) ==
    LET deduped == Dedupe(outgoing \o incoming, << >>)
        r1 == [r EXCEPT !.rawLogs = deduped]
    IN  IF Len(deduped) = 0 THEN Succeed(r1, << >>) ELSE BeginTimestamps(r1)

\* fetchWalletTransfers lines 332-337 and getTransferRecords lines 426-428
AfterWalletTransfers(r, incoming, outgoing) ==
    LET deduped == Dedupe(incoming \o outgoing, << >>)
        r1 == [r EXCEPT !.rawLogs = deduped]
    IN  IF Len(deduped) = 0 THEN Succeed(r1, << >>) ELSE BeginTimestamps(r1)

\* fetchTransfers lines 278-289, entered for one direction with fromBlock <= toBlock:
\* the loop is entered and its first turn has counted itself
BeginTransfers(r, pcOfDirection) ==
    [r EXCEPT !.pc = pcOfDirection, !.logs = << >>, !.current = r.fromBlock,
              !.totalChunks = (r.toBlock - r.fromBlock) \div CHUNK_SIZE + 1,
              !.chunkIndex = 1]

\* fetchTransfers lines 280-282 for the outgoing direction, then
\* fetchWalletTransfers lines 332-337
fetchOutgoingTransfers(r) ==
    IF r.fromBlock > r.toBlock THEN AfterWalletTransfers(r, r.incoming, << >>)
    ELSE BeginTransfers(r, "outgoing")

\* fetchWalletTransfers line 327 with fetchTransfers lines 280-282: an
\* inverted range returns no logs without a request
fetchWalletTransfers(r) ==
    IF r.fromBlock > r.toBlock THEN fetchOutgoingTransfers([r EXCEPT !.incoming = << >>])
    ELSE BeginTransfers(r, "incoming")

\* mutant of AfterRange: an empty range is not short-circuited
AfterRangeUnchecked(r) == [r EXCEPT !.pc = "decimals"]

\* lines 405-416
AfterRange(r) ==
    IF r.fromBlock > r.toBlock THEN Succeed(r, << >>)
    ELSE [r EXCEPT !.pc = "decimals"]

\* findBlockAtOrAfter for the `to` boundary: loop test and return, line 403
SearchToLoop(r) ==
    IF r.left < r.right THEN [r EXCEPT !.pc = "probeTo"]
    ELSE AfterRange([r EXCEPT !.toBlock = r.left - 1])

\* mutant of AfterFromSearch: the `to` boundary is always searched
AfterFromSearchAlways(r) ==
    SearchToLoop([r EXCEPT !.left = 0, !.right = r.latestBlock.number])

\* lines 400-403
AfterFromSearch(r) ==
    IF r.toTimestamp >= r.latestBlock.timestamp
    THEN AfterRange([r EXCEPT !.toBlock = r.latestBlock.number])
    ELSE SearchToLoop([r EXCEPT !.left = 0, !.right = r.latestBlock.number])

\* findBlockAtOrAfter for the `from` boundary: loop test and return, line 398
SearchFromLoop(r) ==
    IF r.left < r.right THEN [r EXCEPT !.pc = "probeFrom"]
    ELSE AfterFromSearch([r EXCEPT !.fromBlock = r.left])

\* mutant of SearchStep: a block at the target time is passed over
SearchStepPastTarget(r, blockTimestamp, targetTimestamp) ==
    LET middle == (r.left + r.right) \div 2
    IN  IF blockTimestamp <= targetTimestamp
        THEN [r EXCEPT !.left = middle + 1]
        ELSE [r EXCEPT !.right = middle]

\* mutant of SearchStep: the probed block is dropped from the range
SearchStepDropsMiddle(r, blockTimestamp, targetTimestamp) ==
    LET middle == (r.left + r.right) \div 2
    IN  IF blockTimestamp < targetTimestamp
        THEN [r EXCEPT !.left = middle + 1]
        ELSE [r EXCEPT !.right = middle - 1]

\* mutant of SearchStep: the lower end stays on the probed block
SearchStepStalls(r, blockTimestamp, targetTimestamp) ==
    LET middle == (r.left + r.right) \div 2
    IN  IF blockTimestamp < targetTimestamp
        THEN [r EXCEPT !.left = middle]
        ELSE [r EXCEPT !.right = middle]

\* findBlockAtOrAfter lines 210-217: one step of the binary search
SearchStep(r, blockTimestamp, targetTimestamp) ==
    LET middle == (r.left + r.right) \div 2
    IN  IF blockTimestamp < targetTimestamp
        THEN [r EXCEPT !.left = middle + 1]
        ELSE [r EXCEPT !.right = middle]

\* fetchTransfers line 288
ChunkEnd(current, toBlock) ==
    IF current + CHUNK_SIZE > toBlock THEN toBlock ELSE current + CHUNK_SIZE

\* mutant of PushChunk: the next chunk starts one block too far
PushChunkSkipsBlock(r, chunk, end) ==
    [r EXCEPT !.logs = r.logs \o chunk, !.current = end + 2,
              !.chunkIndex = IF end + 2 <= r.toBlock THEN @ + 1 ELSE @,
              !.answered = Append(@, [site |-> r.pc, fromBlock |-> r.current,
                                      toBlock |-> end, logs |-> chunk])]

\* fetchTransfers lines 311-312 and, when the loop takes another turn, line 289
PushChunk(r, chunk, end) ==
    [r EXCEPT !.logs = r.logs \o chunk, !.current = end + 1,
              !.chunkIndex = IF end + 1 <= r.toBlock THEN @ + 1 ELSE @,
              !.answered = Append(@, [site |-> r.pc, fromBlock |-> r.current,
                                      toBlock |-> end, logs |-> chunk])]

\* lines 437-479 once every timestamp is there
Finish(r) ==
    Succeed(r, MapFilterSort(r.rawLogs, r.timestampByBlock, r.networkKey,
                             r.decimals, r.symbol, params.walletAddress))

(***************************************************************************)
(* withRpcTimeoutAndRetry                                                  *)
(***************************************************************************)
\* mutant of RetryAllowed: one retry more
RetryAllowedOnceMore(failed) == failed <= RPC_RETRY_TIMES + 1

\* Effect.retry({ times: RPC_RETRY_TIMES }): another attempt after `failed`
\* failed attempts
RetryAllowed(failed) == failed <= RPC_RETRY_TIMES

\* mutant of OnExhausted: the error is swallowed and what is there is returned
OnExhaustedPartial(r) == Finish(r)

\* mutant of OnExhausted: a log query that failed on all attempts is passed over
OnExhaustedSkipsChunk(r) ==
    IF r.pc \in {"incoming", "outgoing"} /\ ChunkEnd(r.current, r.toBlock) < r.toBlock
    THEN PushChunk(r, << >>, ChunkEnd(r.current, r.toBlock))
    ELSE Fail(r, "Remote")

\* the error of the last attempt is the error of the whole run
OnExhausted(r) == Fail(r, "Remote")

\* mutant of RetryState: a failed log query counts as an empty chunk
RetrySkipsChunk(r) ==
    IF r.pc \in {"incoming", "outgoing"}
    THEN PushChunk(r, << >>, ChunkEnd(r.current, r.toBlock))
    ELSE r

\* the locals a failed attempt leaves behind: the wrapped effect is run
\* again as it is, lines 311-312 have not run
RetryState(r) == r

\* the environment lets at most MaxFaultyCalls calls of a run see a failure
MayFail(failedSoFar) == failedSoFar > 0 \/ faults.calls < faults.budget

NoteFault(failedSoFar, isLogQuery) ==
    [budget |-> faults.budget,
     calls |-> faults.calls + (IF failedSoFar = 0 THEN 1 ELSE 0),
     logQuery |-> faults.logQuery + (IF isLogQuery THEN 1 ELSE 0),
     other |-> faults.other + (IF isLogQuery THEN 0 ELSE 1)]

\* one attempt of the remote call the run is waiting for; onSuccess is the
\* run after the call returned and the code up to the next call has run
withRpcTimeoutAndRetry(isLogQuery, onSuccess) ==
    \E outcome \in AttemptOutcomes :
        /\ outcome # "ok" => MayFail(attempt)
        /\ remoteCalls' = remoteCalls + 1
        /\ sent' = [sent EXCEPT ![run.pc] = @ + 1]
        /\ lastOutcome' = outcome
        /\ IF outcome = "ok"
           THEN /\ run' = onSuccess
                /\ attempt' = 0
                /\ UNCHANGED faults
           ELSE /\ faults' = NoteFault(attempt, isLogQuery)
                /\ attempt' = attempt + 1
                /\ run' = IF RetryAllowed(attempt + 1) THEN RetryState(run) ELSE OnExhausted(run)
        /\ UNCHANGED << ledger, order, params, runNo, prev >>
        /\ UNCHANGED syncVars
        /\ UNCHANGED setupVars

(***************************************************************************)
(* Actions                                                                 *)
(***************************************************************************)
\* no sync command is running
IdleSync == [pc |-> "idle"]

\* no config file: the store that setupProgram starts from
EmptyStore == [profiles |-> << >>, defaultProfile |-> "unset"]

\* no setup command has run
NoSetup == [action |-> "none", exit |-> "none"]

\* the snapshots on which the environment makes remote calls fail: the busy one, the
\* longest chains of either kind, the genesis block at the earliest time and
\* all later blocks at the latest, two logs, each first in its block
FaultLedgers ==
    {l \in Ledgers \cup LongLedgers :
        /\ l.head \in {MaxBlock, LongHead}
        /\ Len(l.steps) >= 2
        /\ \A t \in TimePoints : l.steps[1].time <= t /\ t <= l.steps[2].time
        /\ Cardinality(l.logs) = 2
        /\ \A log \in l.logs : log.logIndex = 0}
    \cup BusyLedgers

\* parameters that pass validation and configuration
ValidInput(p) ==
    /\ parseUtcDate(p.fromDate, FALSE).ok
    /\ parseUtcDate(p.toDate, TRUE).ok
    /\ parseUtcDate(p.fromDate, FALSE).value <= parseUtcDate(p.toDate, TRUE).value
    /\ makeClient(p.network, OrElse(p.rpcProvider, "public"), p.alchemyApiKey).ok

Inputs ==
    {[network |-> c.network, rpcProvider |-> c.rpcProvider,
      alchemyApiKey |-> c.alchemyApiKey,
      tokenAddress |-> Token, walletAddress |-> w,
      fromDate |-> f, toDate |-> t] :
        c \in Configs, w \in WalletSpellings, f \in DateStrings, t \in DateStrings}

NoFaults(budget) == [budget |-> budget, calls |-> 0, logQuery |-> 0, other |-> 0]

Init ==
    /\ ledger \in Ledgers \cup LongLedgers \cup BusyLedgers
    /\ order = ChainOrder(ledger.logs)
    /\ params \in Inputs
    \* rejected parameters never reach the ledger: one empty block only
    /\ ~ValidInput(params) => (HeadNumber(ledger) = 0 /\ ledger.logs = {})
    \* the backend does not change what is read: one-block snapshots
    /\ [rpcProvider |-> params.rpcProvider, alchemyApiKey |-> params.alchemyApiKey]
            # DefaultBackend
          => (HeadNumber(ledger) = 0 /\ ledger.broken = {} /\ params.walletAddress = Wallet)
    \* the spelling of the wallet matters per record: one-block snapshots
    /\ params.walletAddress # Wallet => HeadNumber(ledger) = 0
    /\ run = InitialRun
    /\ attempt = 0
    /\ lastOutcome = "none"
    /\ remoteCalls = 0
    /\ sent = NoneSent
    /\ \E budget \in 0..MaxFaultyCalls :
          /\ budget > 0 => ledger \in FaultLedgers
          /\ faults = NoFaults(budget)
    /\ runNo = 1
    /\ prev = << >>
    /\ sync = IdleSync
    /\ odoo = << >>
    /\ store = EmptyStore
    /\ setup = NoSetup

StartRun ==
    /\ run.pc = "start"
    /\ run' = Begin(run, params)
    /\ UNCHANGED << ledger, order, params, attempt, lastOutcome, remoteCalls, faults, runNo,
                    prev, sent >>
    /\ UNCHANGED syncVars
    /\ UNCHANGED setupVars

FetchLatestBlock ==
    /\ run.pc = "latest"
    /\ withRpcTimeoutAndRetry(FALSE,
          SearchFromLoop([run EXCEPT !.latestBlock = LatestBlock(ledger),
                                     !.left = 0, !.right = HeadNumber(ledger)]))

ProbeFrom ==
    /\ run.pc = "probeFrom"
    /\ withRpcTimeoutAndRetry(FALSE,
          SearchFromLoop(SearchStep(run,
              BlockTimestamp(ledger, (run.left + run.right) \div 2), run.fromTimestamp)))

ProbeTo ==
    /\ run.pc = "probeTo"
    /\ withRpcTimeoutAndRetry(FALSE,
          SearchToLoop(SearchStep(run,
              BlockTimestamp(ledger, (run.left + run.right) \div 2), run.toTimestamp + 1)))

FetchDecimals ==
    /\ run.pc = "decimals"
    /\ withRpcTimeoutAndRetry(FALSE, [run EXCEPT !.pc = "symbol", !.decimals = TokenDecimals])

FetchSymbol ==
    /\ run.pc = "symbol"
    /\ withRpcTimeoutAndRetry(FALSE,
          fetchWalletTransfers([run EXCEPT !.symbol = TokenSymbol]))

\* one chunk of fetchTransfers(..., { to: wallet }, "incoming")
QueryIncoming ==
    /\ run.pc = "incoming"
    /\ LET end == ChunkEnd(run.current, run.toBlock)
           chunk == queryTransferLogs(ledger, order, run.current, end,
                                      [to |-> params.walletAddress])
           pushed == PushChunk(run, chunk, end)
       IN  withRpcTimeoutAndRetry(TRUE,
              IF pushed.current <= pushed.toBlock THEN pushed
              ELSE fetchOutgoingTransfers([pushed EXCEPT !.incoming = pushed.logs]))

\* one chunk of fetchTransfers(..., { from: wallet }, "outgoing")
QueryOutgoing ==
    /\ run.pc = "outgoing"
    /\ LET end == ChunkEnd(run.current, run.toBlock)
           chunk == queryTransferLogs(ledger, order, run.current, end,
                                      [from |-> params.walletAddress])
           pushed == PushChunk(run, chunk, end)
       IN  withRpcTimeoutAndRetry(TRUE,
              IF pushed.current <= pushed.toBlock THEN pushed
              ELSE AfterWalletTransfers(pushed, pushed.incoming, pushed.logs))

\* resolveBlockTimestamps: one attempt of the fetch of block b returns
FetchBlockTimestamp(b) ==
    /\ run.pc = "timestamps"
    /\ b \in run.inFlight
    /\ \E outcome \in AttemptOutcomes :
        /\ outcome # "ok" => MayFail(run.fetchAttempt[b])
        /\ lastOutcome' = outcome
        /\ remoteCalls' = remoteCalls + 1
        /\ sent' = [sent EXCEPT !["timestamps"] = @ + 1]
        /\ IF outcome = "ok"
           THEN LET known == [x \in DOMAIN run.timestampByBlock \cup {b} |->
                                IF x = b THEN BlockTimestamp(ledger, b)
                                ELSE run.timestampByBlock[x]]
                    more == run.started < Len(run.uniqueBlocks)
                    next == run.uniqueBlocks[run.started + 1]
                    flying == (run.inFlight \ {b}) \cup (IF more THEN {next} ELSE {})
                    r1 == [run EXCEPT !.timestampByBlock = known,
                                      !.overtaken =
                                          \/ @
                                          \/ \E i, j \in 1..Len(run.uniqueBlocks) :
                                                /\ i < j
                                                /\ run.uniqueBlocks[j] = b
                                                /\ run.uniqueBlocks[i] \in run.inFlight,
                                      !.inFlight = flying,
                                      !.started = IF more THEN run.started + 1 ELSE run.started,
                                      !.fetchAttempt = [x \in flying |->
                                          IF x \in DOMAIN run.fetchAttempt /\ x # b
                                          THEN run.fetchAttempt[x] ELSE 0]]
                IN  /\ run' = IF flying = {} THEN Finish(r1) ELSE r1
                    /\ UNCHANGED faults
           ELSE /\ faults' = NoteFault(run.fetchAttempt[b], FALSE)
                /\ IF RetryAllowed(run.fetchAttempt[b] + 1)
                   THEN run' = RetryState([run EXCEPT !.fetchAttempt[b] = @ + 1])
                   ELSE run' = OnExhausted([run EXCEPT !.fetchAttempt[b] = @ + 1])
    /\ UNCHANGED << ledger, order, params, attempt, runNo, prev >>
    /\ UNCHANGED syncVars
    /\ UNCHANGED setupVars

\* the caller invokes getTransferRecords again with the same parameters on
\* the same snapshot; the node may list the logs in another order
Rerun ==
    /\ run.pc = "done"
    /\ run.exit = "success"
    /\ faults = NoFaults(faults.budget)
    /\ runNo = 1
    /\ prev' = << [order |-> order, result |-> run.result] >>
    /\ runNo' = 2
    /\ order' \in NodeOrders(ledger.logs)
    /\ run' = InitialRun
    /\ attempt' = 0
    /\ lastOutcome' = "none"
    /\ remoteCalls' = 0
    /\ sent' = NoneSent
    /\ UNCHANGED << ledger, params, faults >>
    /\ UNCHANGED syncVars
    /\ UNCHANGED setupVars

Next ==
    \/ StartRun
    \/ FetchLatestBlock
    \/ ProbeFrom
    \/ ProbeTo
    \/ FetchDecimals
    \/ FetchSymbol
    \/ QueryIncoming
    \/ QueryOutgoing
    \/ \E b \in run.inFlight : FetchBlockTimestamp(b)
    \/ Rerun

Spec == Init /\ [][Next]_vars

(***************************************************************************)
(* fetchWalletTransfers on its own: the block range is handed in by the    *)
(* caller and need not be one that the boundary searches produce           *)
(***************************************************************************)
\* the block ranges handed in, empty and inverted ones included
RangesOf(l) == {<< f, t >> : f \in 0..HeadNumber(l), t \in (-1)..HeadNumber(l)}

DirectInit ==
    /\ ledger \in {l \in Ledgers : l.broken = {} /\ Cardinality(l.logs) <= 1}
    /\ order = ChainOrder(ledger.logs)
    /\ params \in {p \in Inputs :
            /\ ValidInput(p)
            /\ p.fromDate = ValidDates[1] /\ p.toDate = ValidDates[Len(ValidDates)]
            /\ p.walletAddress = Wallet
            /\ [rpcProvider |-> p.rpcProvider, alchemyApiKey |-> p.alchemyApiKey]
                    = DefaultBackend}
    /\ \E range \in RangesOf(ledger) :
          run = [InitialRun EXCEPT !.pc = "walletTransfers",
                                   !.networkKey = "mainnet", !.rpcUrl = "public",
                                   !.latestBlock = LatestBlock(ledger),
                                   !.fromBlock = range[1], !.toBlock = range[2],
                                   !.decimals = TokenDecimals, !.symbol = TokenSymbol]
    /\ attempt = 0
    /\ lastOutcome = "none"
    /\ remoteCalls = 0
    /\ sent = NoneSent
    /\ faults = NoFaults(0)
    /\ runNo = 1
    /\ prev = << >>
    /\ sync = IdleSync
    /\ odoo = << >>
    /\ store = EmptyStore
    /\ setup = NoSetup

\* the call of fetchWalletTransfers up to its first request, or to its
\* return when it sends none
EnterWalletTransfers ==
    /\ run.pc = "walletTransfers"
    /\ run' = fetchWalletTransfers(run)
    /\ UNCHANGED << ledger, order, params, attempt, lastOutcome, remoteCalls, faults, runNo,
                    prev, sent >>
    /\ UNCHANGED syncVars
    /\ UNCHANGED setupVars

RangeInit == Init \/ DirectInit

RangeNext == Next \/ EnterWalletTransfers

RangeSpec == RangeInit /\ [][RangeNext]_vars

(***************************************************************************)
(* The sync command and Odoo                                               *)
(***************************************************************************)
\* the chunkSize that syncProgram passes to fetchExistingImportIds
DEDUP_CHUNK_SIZE == 100

\* the size of one creation batch of syncProgram
CREATE_BATCH_SIZE == 200

\* the chunkSize of fetchExistingImportIds when its caller names none
DEFAULT_CHUNK_SIZE == 100

\* options.chunkSize ?? 100, the option being << >> when the caller names none
chunkSizeOf(option) == IF option = << >> THEN DEFAULT_CHUNK_SIZE ELSE option[1]

\* how many sync commands are run one after the other
MaxSyncRuns == 2

\* the journal of the profile, another journal, and the company of both
ProfileJournal == "journal"
OtherJournal == "other journal"
JournalCompany == "company"

\* the profiles of the store: companyId is optional, journalId is required
Profiles == {[companyId |-> c, journalId |-> ProfileJournal] : c \in {"unset", JournalCompany}}

\* the i-th transfer of the wallet on the ledger, as getTransferRecords returns it
TransferOf(i) == [uniqueId |-> << "mainnet", TxHashOf(i), 0 >>]

\* how many transfers of the wallet the ledger holds
TransferCounts == {0, 1, 2, DEDUP_CHUNK_SIZE + 1, CREATE_BATCH_SIZE + 1}

\* the date ranges a run may ask for, as the first and last transfer they cover
DateRanges(n) ==
    {<< 1, n >>} \cup (IF n >= 2 THEN {<< 2, n >>} ELSE {})
                 \cup (IF n = 2 THEN {<< 1, n - 1 >>} ELSE {})

\* the transfers that getTransferRecords returns for a date range
TransfersIn(range) == [k \in 1..(range[2] - range[1] + 1) |-> TransferOf(range[1] + k - 1)]

\* the statement line of one transfer
toStatementLine(config, transfer) ==
    [company_id |-> config.companyId,
     journal_id |-> config.journalId,
     unique_import_id |-> << "ERC20-", transfer.uniqueId >>]

\* mutant of Slice: the last item of the slice is left out
SliceOneShort(items, from, to) ==
    SubSeq(items, from + 1, (IF to < Len(items) THEN to ELSE Len(items)) - 1)

\* items.slice(from, to) of a list, with zero-based half-open bounds
Slice(items, from, to) == SubSeq(items, from + 1, IF to < Len(items) THEN to ELSE Len(items))

\* the list cut into consecutive pieces of chunkSize
chunk(items, chunkSize) ==
    [k \in 1..((Len(items) + chunkSize - 1) \div chunkSize) |->
        Slice(items, (k - 1) * chunkSize, k * chunkSize)]

\* the row that Odoo stores for a line: a line without company gets its journal's company
StoredLine(line) ==
    [line EXCEPT !.company_id = IF @ = "unset" THEN JournalCompany ELSE @]

\* whether a row of Odoo satisfies the domain of the lookup
InDomain(row, ids, options) ==
    /\ row.unique_import_id \in ids
    /\ options.companyId # "unset" => row.company_id = options.companyId
    /\ options.journalId # "unset" => row.journal_id = options.journalId

\* mutant of searchRead: at most one row is returned
searchReadOneRow(rows, ids, options, limit) ==
    LET wanted == {ids[k] : k \in 1..Len(ids)}
        InIt(row) == InDomain(row, wanted, options)
        found == SelectSeq(rows, InIt)
    IN  SubSeq(found, 1, IF 1 < Len(found) THEN 1 ELSE Len(found))

\* search_read: the rows in the domain, at most limit of them
searchRead(rows, ids, options, limit) ==
    LET wanted == {ids[k] : k \in 1..Len(ids)}
        InIt(row) == InDomain(row, wanted, options)
        found == SelectSeq(rows, InIt)
    IN  SubSeq(found, 1, IF limit < Len(found) THEN limit ELSE Len(found))

\* the lines that syncProgram keeps for creation, were nothing reported as existing
NewLinesUnfiltered(lines, existingImportIds) == lines

\* the lines whose import id Odoo did not report as existing
NewLines(lines, existingImportIds) ==
    LET IsNew(line) == line.unique_import_id \notin existingImportIds
    IN  SelectSeq(lines, IsNew)

\* the rows Odoo holds before the first run: an interval of the ledger's transfers in
\* the profile's journal, and possibly the first transfer in another journal; no two
\* rows of one journal share their import id
RowsOf(interval, other) ==
    [k \in 1..other |->
        StoredLine(toStatementLine([companyId |-> "unset", journalId |-> OtherJournal],
                                   TransferOf(k)))]
    \o [k \in 1..(interval[2] - interval[1] + 1) |->
        StoredLine(toStatementLine([companyId |-> "unset", journalId |-> ProfileJournal],
                                   TransferOf(interval[1] + k - 1)))]

InitialRows(n) ==
    {RowsOf(interval, other) :
        interval \in {<< 1, 0 >>} \cup
                     {i \in {<< 1, 1 >>, << DEDUP_CHUNK_SIZE, n >>} : i[1] <= i[2]} \cup
                     {i \in {<< n, n >>, << 1, n >>} : 1 <= n /\ n <= 2},
        other \in {0} \cup {k \in {1} : k <= n /\ n <= 2}}

\* the sync command before it reads the transfers
StartOfSync(previous, config, total, runs, failures, first) ==
    [pc |-> "start", config |-> config, total |-> total, runs |-> runs,
     failures |-> failures, first |-> first, before |-> previous,
     range |-> << 1, 0 >>, lines |-> << >>, index |-> 0,
     existing |-> {}, newLines |-> << >>, batch |-> 0, created |-> 0,
     \* the chunkSize option of the lookup: << >> when the caller names none
     chunkSize |-> << DEDUP_CHUNK_SIZE >>,
     \* history: the lookup requests of this run, and those that were answered with the
     \* ids they asked for and the ids they reported
     requests |-> 0, asked |-> << >>,
     exit |-> "none"]

\* the sync command ends
Exit(s, exit) == [s EXCEPT !.pc = "done", !.exit = exit]

\* syncProgram once the lookup has returned: filter, then write or stop
AfterLookup(s) ==
    LET newLines == NewLines(s.lines, s.existing)
    IN  IF Len(newLines) = 0
        THEN Exit([s EXCEPT !.newLines = newLines], "success")
        ELSE [s EXCEPT !.newLines = newLines, !.batch = 1, !.created = 0, !.pc = "create"]

\* the import ids of the lines of the sync command
importIds(s) == [k \in 1..Len(s.lines) |-> s.lines[k].unique_import_id]

\* the creation batches of the sync command
batches(s) == chunk(s.newLines, CREATE_BATCH_SIZE)

\* an Odoo request of this sync may still fail
OdooMayFail == sync.failures < MaxFaultyCalls

\* syncProgram up to the lookup: read the transfers of the date range and turn them
\* into statement lines
ReadTransfers ==
    /\ sync.pc = "start"
    /\ \E range \in DateRanges(sync.total), fetched \in BOOLEAN :
        LET transfers == TransfersIn(range)
            lines == [k \in 1..Len(transfers) |-> toStatementLine(sync.config, transfers[k])]
            read == [sync EXCEPT !.range = range]
        IN  sync' = IF ~fetched
                    THEN Exit(read, "failure")
                    ELSE IF Len(transfers) = 0
                    THEN Exit(read, "success")
                    ELSE [read EXCEPT !.lines = lines, !.index = 0, !.existing = {},
                                      !.pc = "lookup"]
    /\ UNCHANGED odoo
    /\ UNCHANGED chainVars
    /\ UNCHANGED setupVars

\* one turn of the loop of fetchExistingImportIds
LookupChunk ==
    /\ sync.pc = "lookup"
    /\ LET chunkSize == chunkSizeOf(sync.chunkSize)
           ids == Slice(importIds(sync), sync.index, sync.index + chunkSize)
           rows == searchRead(odoo, ids, sync.config, Len(ids))
           reported == {rows[k].unique_import_id : k \in 1..Len(rows)}
           next == [sync EXCEPT !.existing = @ \cup reported,
                                !.index = @ + chunkSize,
                                !.requests = @ + 1,
                                !.asked = Append(@, [ids |-> ids, reported |-> reported])]
       IN  \/ sync' = IF next.index < Len(sync.lines) THEN next ELSE AfterLookup(next)
           \/ /\ OdooMayFail
              /\ sync' = Exit([sync EXCEPT !.failures = @ + 1, !.requests = @ + 1],
                              "failure")
    /\ UNCHANGED odoo
    /\ UNCHANGED chainVars
    /\ UNCHANGED setupVars

\* one turn of the loop over the creation batches
CreateBatch ==
    /\ sync.pc = "create"
    /\ LET batch == batches(sync)[sync.batch]
           next == [sync EXCEPT !.created = @ + Len(batch), !.batch = @ + 1]
       IN  \/ /\ odoo' = odoo \o [k \in 1..Len(batch) |-> StoredLine(batch[k])]
              /\ sync' = IF sync.batch < Len(batches(sync)) THEN next ELSE Exit(next, "success")
           \/ /\ OdooMayFail
              /\ odoo' = odoo
              /\ sync' = Exit([sync EXCEPT !.failures = @ + 1], "failure")
    /\ UNCHANGED chainVars
    /\ UNCHANGED setupVars

\* the user runs the sync command again
SyncAgain ==
    /\ sync.pc = "done"
    /\ sync.runs < MaxSyncRuns
    /\ sync' = StartOfSync(Len(odoo), sync.config, sync.total, sync.runs + 1, sync.failures,
                           IF sync.runs = 1
                           THEN [range |-> sync.range, exit |-> sync.exit,
                                 created |-> Len(odoo) - sync.before]
                           ELSE sync.first)
    /\ UNCHANGED odoo
    /\ UNCHANGED chainVars
    /\ UNCHANGED setupVars

\* a profile, a ledger with some transfers of the wallet, and an Odoo with some rows;
\* the sync command sees the ledger only as the list that getTransferRecords returns
SyncInit ==
    /\ ledger = CHOOSE l \in Ledgers : HeadNumber(l) = 0 /\ l.logs = {}
    /\ order = << >>
    /\ params = CHOOSE p \in Inputs : ValidInput(p)
    /\ run = InitialRun
    /\ attempt = 0
    /\ lastOutcome = "none"
    /\ remoteCalls = 0
    /\ faults = NoFaults(0)
    /\ runNo = 1
    /\ prev = << >>
    /\ sent = NoneSent
    /\ store = EmptyStore
    /\ setup = NoSetup
    /\ \E config \in Profiles, total \in TransferCounts :
        /\ odoo \in InitialRows(total)
        /\ sync = StartOfSync(Len(odoo), config, total, 1, 0,
                              [range |-> << 1, 0 >>, exit |-> "none", created |-> 0])

SyncNext ==
    \/ ReadTransfers
    \/ LookupChunk
    \/ CreateBatch
    \/ SyncAgain

SyncSpec == SyncInit /\ [][SyncNext]_vars

(***************************************************************************)
(* fetchExistingImportIds on its own: the ids and the chunk size are       *)
(* handed in by the caller, an empty list and no chunk size included       *)
(***************************************************************************)
\* the lists of ids handed in, as the lines of so many transfers, and the chunk sizes
DirectCounts == {0, 1, 2, 3, DEFAULT_CHUNK_SIZE + 1}

DirectChunkSizes(n) == {<< >>} \cup (IF n <= 3 THEN {<< 1 >>, << 2 >>} ELSE {})

DirectLookupInit ==
    /\ ledger = CHOOSE l \in Ledgers : HeadNumber(l) = 0 /\ l.logs = {}
    /\ order = << >>
    /\ params = CHOOSE p \in Inputs : ValidInput(p)
    /\ run = InitialRun
    /\ attempt = 0
    /\ lastOutcome = "none"
    /\ remoteCalls = 0
    /\ faults = NoFaults(0)
    /\ runNo = 1
    /\ prev = << >>
    /\ sent = NoneSent
    /\ store = EmptyStore
    /\ setup = NoSetup
    /\ \E config \in Profiles, total \in DirectCounts :
        \E chunkSize \in DirectChunkSizes(total) :
            /\ odoo \in InitialRows(total)
            /\ sync = [StartOfSync(Len(odoo), config, total, MaxSyncRuns, 0,
                                   [range |-> << 1, 0 >>, exit |-> "none", created |-> 0])
                         EXCEPT !.pc = "call",
                                !.range = << 1, total >>,
                                !.chunkSize = chunkSize,
                                !.lines = [k \in 1..total |->
                                            toStatementLine(config, TransferOf(k))]]

\* fetchExistingImportIds is entered: an empty list ends the loop before its first turn
EnterLookup ==
    /\ sync.pc = "call"
    /\ sync' = IF Len(sync.lines) = 0 THEN AfterLookup(sync)
               ELSE [sync EXCEPT !.pc = "lookup"]
    /\ UNCHANGED odoo
    /\ UNCHANGED chainVars
    /\ UNCHANGED setupVars

LookupInit == SyncInit \/ DirectLookupInit

LookupNext == SyncNext \/ EnterLookup

LookupSpec == LookupInit /\ [][LookupNext]_vars

(***************************************************************************)
(* The setup command and the config store                                  *)
(***************************************************************************)
\* how many profiles the store may hold
MaxProfiles == 3

\* the names of the journals that Odoo offers, some with surrounding blanks
JournalNames == {"Bank", " Bank", "Crypto", "Cash", " "}

\* a profile of the store: its name and the journal name it was made from
ProfileOf(name, journalName) == [name |-> name, journalName |-> journalName]

\* no profile: the existingProfile of an add (undefined)
NoProfile == ProfileOf("unset", "unset")

\* profiles.some(profile => profile.name === name)
HasProfile(profiles, name) == \E i \in 1..Len(profiles) : profiles[i].name = name

\* normalizeStore: a default that names no profile gives way to the first profile
normalizeStore(s) ==
    IF s.defaultProfile # "unset" /\ HasProfile(s.profiles, s.defaultProfile)
    THEN s
    ELSE [profiles |-> s.profiles,
          defaultProfile |-> IF Len(s.profiles) > 0 THEN s.profiles[1].name ELSE "unset"]

\* loadConfigStoreOptional() ?? { profiles: [] }
loadConfigStoreOptional(file) == normalizeStore(file)

\* what saveConfigStore writes to the file
saveConfigStore(s) == normalizeStore(s)

\* mutant of configureProfile: no check for a profile of the same name
configureProfileUnchecked(existingProfile, allProfiles, journalName, answered) ==
    LET profileName == Trim(journalName)
    IN  IF profileName = "" THEN [ok |-> FALSE, message |-> "EmptyJournalName"]
        ELSE IF ~answered THEN [ok |-> FALSE, message |-> "Prompt"]
        ELSE [ok |-> TRUE, profile |-> ProfileOf(profileName, journalName)]

\* configureProfile: the name of the profile is the trimmed journal name; it must not be
\* empty nor the name of another profile; `answered` tells whether the prompts and Odoo
\* requests around it succeed
configureProfile(existingProfile, allProfiles, journalName, answered) ==
    LET profileName == Trim(journalName)
        existingName == existingProfile.name
        duplicateProfile == \E i \in 1..Len(allProfiles) :
                                /\ allProfiles[i].name = profileName
                                /\ allProfiles[i].name # existingName
    IN  IF profileName = "" THEN [ok |-> FALSE, message |-> "EmptyJournalName"]
        ELSE IF duplicateProfile THEN [ok |-> FALSE, message |-> "DuplicateProfile"]
        ELSE IF ~answered THEN [ok |-> FALSE, message |-> "Prompt"]
        ELSE [ok |-> TRUE, profile |-> ProfileOf(profileName, journalName)]

\* mutant of storeAfterRemove: the last remaining profile becomes the default
storeAfterRemoveTakesLast(s, toRemove) ==
    LET profiles == SelectSeq(s.profiles, LAMBDA profile : profile.name # toRemove.name)
        last == IF Len(profiles) > 0 THEN profiles[Len(profiles)].name ELSE "unset"
    IN  [profiles |-> profiles,
         defaultProfile |-> IF s.defaultProfile = toRemove.name THEN last
                            ELSE OrElse(s.defaultProfile, last)]

\* setupProgram lines 434-441: the store without the profile; when it was the default,
\* the first remaining profile becomes the default
storeAfterRemove(s, toRemove) ==
    LET profiles == SelectSeq(s.profiles, LAMBDA profile : profile.name # toRemove.name)
        first == IF Len(profiles) > 0 THEN profiles[1].name ELSE "unset"
    IN  [profiles |-> profiles,
         defaultProfile |-> IF s.defaultProfile = toRemove.name THEN first
                            ELSE OrElse(s.defaultProfile, first)]

\* setupProgram lines 462-470: the configured profile replaces the edited one or is
\* appended, and becomes the default
storeAfterConfigure(s, profileToEdit, configuredProfile) ==
    [profiles |-> IF profileToEdit # NoProfile
                  THEN [i \in 1..Len(s.profiles) |->
                            IF s.profiles[i].name = profileToEdit.name
                            THEN configuredProfile ELSE s.profiles[i]]
                  ELSE Append(s.profiles, configuredProfile),
     defaultProfile |-> configuredProfile.name]

\* the end of a setup command: what it was asked, what the file held before, how it ended
SetupEnded(action, target, journalName, before, exit) ==
    [action |-> action, target |-> target, journalName |-> journalName,
     before |-> before, exit |-> exit]

\* setupProgram, action "add": offered always, taken without asking on an empty store
SetupAdd ==
    /\ Len(store.profiles) < MaxProfiles
    /\ \E journalName \in JournalNames, answered \in BOOLEAN, written \in BOOLEAN :
        LET loaded == loadConfigStoreOptional(store)
            configured == configureProfile(NoProfile, loaded.profiles, journalName, answered)
        IN  IF configured.ok /\ written
            THEN /\ store' = saveConfigStore(storeAfterConfigure(loaded, NoProfile,
                                                                configured.profile))
                 /\ setup' = SetupEnded("add", "unset", journalName, store, "saved")
            ELSE /\ store' = store
                 /\ setup' = SetupEnded("add", "unset", journalName, store,
                                        IF configured.ok THEN "WriteFailed"
                                        ELSE configured.message)
    /\ UNCHANGED chainVars
    /\ UNCHANGED << sync, odoo >>

\* setupProgram, action "edit" of a profile the user picks
SetupEdit ==
    /\ \E i \in 1..Len(store.profiles), journalName \in JournalNames,
          answered \in BOOLEAN, written \in BOOLEAN :
        LET loaded == loadConfigStoreOptional(store)
            profileToEdit == loaded.profiles[i]
            configured == configureProfile(profileToEdit, loaded.profiles, journalName,
                                           answered)
        IN  IF configured.ok /\ written
            THEN /\ store' = saveConfigStore(storeAfterConfigure(loaded, profileToEdit,
                                                                configured.profile))
                 /\ setup' = SetupEnded("edit", profileToEdit.name, journalName, store,
                                        "saved")
            ELSE /\ store' = store
                 /\ setup' = SetupEnded("edit", profileToEdit.name, journalName, store,
                                        IF configured.ok THEN "WriteFailed"
                                        ELSE configured.message)
    /\ UNCHANGED chainVars
    /\ UNCHANGED << sync, odoo >>

\* setupProgram, action "remove" of a profile the user picks
SetupRemove ==
    /\ \E i \in 1..Len(store.profiles), written \in BOOLEAN :
        LET loaded == loadConfigStoreOptional(store)
            toRemove == loaded.profiles[i]
        IN  IF written
            THEN /\ store' = saveConfigStore(storeAfterRemove(loaded, toRemove))
                 /\ setup' = SetupEnded("remove", toRemove.name, "unset", store, "saved")
            ELSE /\ store' = store
                 /\ setup' = SetupEnded("remove", toRemove.name, "unset", store,
                                        "WriteFailed")
    /\ UNCHANGED chainVars
    /\ UNCHANGED << sync, odoo >>

\* no config file yet
SetupInit ==
    /\ ledger = CHOOSE l \in Ledgers : HeadNumber(l) = 0 /\ l.logs = {}
    /\ order = << >>
    /\ params = CHOOSE p \in Inputs : ValidInput(p)
    /\ run = InitialRun
    /\ attempt = 0
    /\ lastOutcome = "none"
    /\ remoteCalls = 0
    /\ faults = NoFaults(0)
    /\ runNo = 1
    /\ prev = << >>
    /\ sent = NoneSent
    /\ sync = IdleSync
    /\ odoo = << >>
    /\ store = EmptyStore
    /\ setup = NoSetup

SetupNext ==
    \/ SetupAdd
    \/ SetupEdit
    \/ SetupRemove

SetupSpec == SetupInit /\ [][SetupNext]_vars

(***************************************************************************)
(* Vocabulary of the properties                                            *)
(***************************************************************************)
Done == run.pc = "done"
Succeeded == Done /\ run.exit = "success"
Failed == Done /\ run.exit \in {"fail", "die"}

IsCalendarDate(date) == \E i \in DOMAIN ValidDates : ValidDates[i] = date
DayIndex(date) == (CHOOSE i \in DOMAIN ValidDates : ValidDates[i] = date) - 1
\* 00:00:00 UTC and 23:59:59 UTC of a calendar date, in seconds
StartOfDay(date) == DayIndex(date) * 86400
EndOfDay(date) == DayIndex(date) * 86400 + 86399

DatesRejected ==
    \/ ~IsCalendarDate(params.fromDate)
    \/ ~IsCalendarDate(params.toDate)
    \/ DayIndex(params.fromDate) > DayIndex(params.toDate)

InDateRange(log) ==
    /\ StartOfDay(params.fromDate) <= BlockTimestamp(ledger, log.blockNumber)
    /\ BlockTimestamp(ledger, log.blockNumber) <= EndOfDay(params.toDate)

RecordsOf(log) ==
    {i \in DOMAIN run.result :
        run.result[i].uniqueId = << "mainnet", log.transactionHash, log.logIndex >>}

\* the log reaches the client with all its fields
Intact(log) == \A b \in ledger.broken : b.log # log

Occurs(seq, x) == \E i \in DOMAIN seq : seq[i] = x
NoRepeats(seq) == \A i, j \in DOMAIN seq : seq[i] = seq[j] => i = j

\* some remote call of the run has failed on all of its attempts
CallExhausted ==
    \/ attempt > RPC_RETRY_TIMES
    \/ \E b \in DOMAIN run.fetchAttempt : run.fetchAttempt[b] > RPC_RETRY_TIMES

(***************************************************************************)
(* C1  Completeness: a run that succeeds returns a record for every        *)
(* well-formed Transfer log of the snapshot that touches the wallet and    *)
(* whose block timestamp lies between 00:00:00 UTC of fromDate and         *)
(* 23:59:59 UTC of toDate; the record carries the log's block, addresses   *)
(* and raw value.                                                          *)
(***************************************************************************)
C1_Completeness ==
    Succeeded =>
        \A log \in ledger.logs :
            (Intact(log) /\ TouchesWallet(log) /\ InDateRange(log)) =>
                \E i \in RecordsOf(log) :
                    /\ run.result[i].blockNumber = log.blockNumber
                    /\ run.result[i].from = log.from
                    /\ run.result[i].to = log.to
                    /\ run.result[i].amountRaw = log.value
                    /\ run.result[i].timestamp = BlockTimestamp(ledger, log.blockNumber)

\* a run over the second day only returns the records of two logs of that
\* day, while the snapshot also has a block of the first day
C1_Witness ==
    /\ Succeeded
    /\ params.fromDate = ValidDates[2]
    /\ run.fromBlock > 0
    /\ Cardinality({log \in ledger.logs : InDateRange(log)}) = 2
    /\ Len(run.result) = 2

(***************************************************************************)
(* C2  Boundary correctness, as claimed: whenever a block range with       *)
(* fromBlock <= toBlock is resolved, the timestamp of fromBlock is at or   *)
(* after the start of fromDate and the timestamp of toBlock is at or       *)
(* before the end of toDate.                                               *)
(***************************************************************************)
RangeResolved == run.pc \in {"decimals", "symbol", "incoming", "outgoing", "timestamps"}

C2_BoundaryCorrect ==
    (RangeResolved /\ run.fromBlock <= run.toBlock) =>
        /\ BlockTimestamp(ledger, run.fromBlock) >= StartOfDay(params.fromDate)
        /\ BlockTimestamp(ledger, run.toBlock) <= EndOfDay(params.toDate)

(***************************************************************************)
(* C3  No two records of a result share their uniqueId.                    *)
(***************************************************************************)
C3_UniqueIds ==
    Done =>
        \A i, j \in DOMAIN run.result :
            run.result[i].uniqueId = run.result[j].uniqueId => i = j

\* a result of two records, one of them a log that both directional
\* queries returned, the other found by one query only
C3_Witness ==
    /\ Succeeded
    /\ Len(run.result) = 2
    /\ \E i \in DOMAIN run.incoming : Occurs(run.logs, run.incoming[i])
    /\ \E i \in DOMAIN run.incoming : ~Occurs(run.logs, run.incoming[i])

(***************************************************************************)
(* C4  Determinism, as claimed: the repeated run returns the records of    *)
(* the first run in the same order, also when the node lists the logs in   *)
(* another order.                                                          *)
(***************************************************************************)
C4_Deterministic ==
    (runNo = 2 /\ Succeeded) => run.result = prev[1].result

(***************************************************************************)
(* C5  Sorted output, as claimed: adjacent records are in ascending order  *)
(* of (timestamp, blockNumber, logIndex).                                  *)
(***************************************************************************)
KeyLeq(a, b) ==
    \/ a.timestamp < b.timestamp
    \/ /\ a.timestamp = b.timestamp
       /\ \/ a.blockNumber < b.blockNumber
          \/ a.blockNumber = b.blockNumber /\ a.logIndex <= b.logIndex

C5_Sorted ==
    Done => \A i \in 1..(Len(run.result) - 1) : KeyLeq(run.result[i], run.result[i + 1])

(***************************************************************************)
(* C6  Validation fails fast: with a malformed fromDate or toDate, or with *)
(* fromDate after toDate, the run ends with a ChainError and no records,   *)
(* no request has been sent to the node and no attempt has been retried.   *)
(***************************************************************************)
C6_ValidationFailsFast ==
    (DatesRejected /\ run.pc # "start") =>
        /\ Failed
        /\ run.error = "ChainError"
        /\ run.result = << >>
        /\ remoteCalls = 0
        /\ attempt = 0 /\ lastOutcome = "none"

\* a run with a well-formed fromDate and a malformed toDate has ended
C6_Witness ==
    /\ Done
    /\ IsCalendarDate(params.fromDate)
    /\ ~IsCalendarDate(params.toDate)
    /\ run.message = "InvalidDate"

(***************************************************************************)
(* C7  All-or-nothing: once a remote call has failed on all its attempts   *)
(* the run has failed with a ChainError and returns no record.             *)
(***************************************************************************)
C7_AllOrNothing ==
    CallExhausted =>
        /\ Done /\ run.exit = "fail"
        /\ run.error = "ChainError"
        /\ run.result = << >>

\* the second block-timestamp fetch failed three times after both log
\* queries and the first timestamp fetch had delivered
C7_Witness ==
    /\ CallExhausted
    /\ Len(run.rawLogs) = 2
    /\ DOMAIN run.timestampByBlock # {}
    /\ lastOutcome = "timeout"

(***************************************************************************)
(* C8  Retry transparency: a repeated run in which exactly one attempt of  *)
(* one log query failed, the node listing logs as in the first run, ends   *)
(* with the records of the failure-free first run in the same order; the   *)
(* query is retried from the start of its own chunk with only the logs of  *)
(* earlier chunks accumulated, and no direction's list holds a log twice.  *)
(***************************************************************************)
OneLogQueryFault == faults.logQuery = 1 /\ faults.other = 0

C8_RetryTransparent ==
    (runNo = 2 /\ OneLogQueryFault /\ order = prev[1].order) =>
        /\ ~Failed
        /\ NoRepeats(run.logs) /\ NoRepeats(run.incoming)
        /\ attempt = 1 =>
              /\ run.pc \in {"incoming", "outgoing"}
              /\ run.current <= run.toBlock
              /\ (run.current - run.fromBlock) % (CHUNK_SIZE + 1) = 0
              /\ \A i \in DOMAIN run.logs : run.logs[i].blockNumber < run.current
        /\ Succeeded => run.result = prev[1].result

\* the repeated run succeeded with two records after one failed attempt of
\* the outgoing query
C8_Witness ==
    /\ runNo = 2 /\ Succeeded
    /\ OneLogQueryFault
    /\ order = prev[1].order
    /\ Len(run.result) = 2
    /\ Len(run.incoming) = 1

(***************************************************************************)
(* C9  Bounded retry: no remote call is attempted more than                *)
(* RPC_RETRY_TIMES + 1 = 3 times; a call returns as soon as an attempt     *)
(* succeeds, and the run fails with a remote error exactly when some call  *)
(* has failed 3 times.                                                     *)
(***************************************************************************)
C9_BoundedRetry ==
    /\ attempt <= RPC_RETRY_TIMES + 1
    /\ \A b \in DOMAIN run.fetchAttempt : run.fetchAttempt[b] <= RPC_RETRY_TIMES + 1
    /\ lastOutcome = "ok" => attempt = 0
    /\ (Done /\ run.message = "Remote") <=> CallExhausted
    /\ (Done /\ run.message = "Remote") => run.error = "ChainError"

\* a call went through on its third attempt
C9_Witness ==
    /\ lastOutcome = "ok"
    /\ faults.other = RPC_RETRY_TIMES
    /\ faults.calls = 1
    /\ run.pc = "probeTo"

(***************************************************************************)
(* C10  A transfer of the wallet to itself inside the resolved block range *)
(* is returned by both directional queries and has exactly one record in   *)
(* the result.                                                             *)
(***************************************************************************)
C10_SelfTransferOnce ==
    Succeeded =>
        \A log \in ledger.logs :
            (Occurs(run.incoming, log) /\ Occurs(run.logs, log)) =>
                Cardinality(RecordsOf(log)) = 1

\* a self-transfer was returned by both queries, next to another transfer
C10_Witness ==
    /\ Succeeded
    /\ \E log \in ledger.logs :
          /\ log.from = Wallet /\ log.to = Wallet
          /\ Occurs(run.incoming, log) /\ Occurs(run.logs, log)
    /\ Len(run.result) = 2

(***************************************************************************)
(* C11  Amount: the magnitude of a record's amount is its raw value        *)
(* divided by 10^decimals, the amount is positive when `to` is the wallet  *)
(* (in any spelling of the address) and negative otherwise, amountRaw is   *)
(* the raw value of the log; with 6 decimals a raw value of 1000000 gives  *)
(* 1.0 for the receiver and -1.0 for the sender.                           *)
(***************************************************************************)
IsReceiver(record) == toLowerCase(record.to) = toLowerCase(params.walletAddress)

C12_MalformedDropped ==
    (Done /\ ledger.broken # {} /\ ValidInput(params)) =>
        /\ Succeeded
        /\ \A b \in ledger.broken :
              \A i \in DOMAIN run.result :
                  \/ run.result[i].blockNumber # b.log.blockNumber
                  \/ run.result[i].from # b.log.from \/ run.result[i].to # b.log.to
                  \/ run.result[i].logIndex # b.log.logIndex
        /\ \A k \in DOMAIN run.rawLogs :
              WellFormed(run.rawLogs[k]) =>
                  \E i \in DOMAIN run.result :
                      /\ run.result[i].txHash = run.rawLogs[k].transactionHash
                      /\ run.result[i].logIndex = run.rawLogs[k].logIndex

\* the batch held a well-formed log and one without transaction hash; the
\* result is the record of the well-formed one
C12_Witness ==
    /\ Succeeded
    /\ \E b \in ledger.broken : b.field = "transactionHash"
    /\ Len(run.rawLogs) = 2
    /\ Len(run.result) = 1

(***************************************************************************)
(* C13  Empty day, as claimed: with fromDate = toDate and no transfer of   *)
(* the wallet in a block of that day, a run whose remote calls all went    *)
(* through ends successfully with no record.                               *)
(***************************************************************************)
NoTransferInRange == \A log \in ledger.logs : ~(TouchesWallet(log) /\ InDateRange(log))

C13_EmptyDay ==
    (Done /\ ValidInput(params) /\ params.fromDate = params.toDate
          /\ NoTransferInRange /\ ~CallExhausted) =>
        Succeeded /\ run.result = << >>

(***************************************************************************)
(* C14  Configuration errors fail fast: with well-formed dates and an      *)
(* unsupported network key, or with rpcProvider "alchemy" and a missing or *)
(* blank API key, the run ends with a ChainError and no records, no        *)
(* request has been sent, and no endpoint (the public one in particular)   *)
(* has been chosen.                                                        *)
(***************************************************************************)
ConfigRejected ==
    \/ params.network \notin {"mainnet", "ethereum"}
    \/ params.rpcProvider = "alchemy" /\ params.alchemyApiKey \in {"unset", "", " "}

C14_ConfigFailsFast ==
    (~DatesRejected /\ ConfigRejected /\ run.pc # "start") =>
        /\ Failed
        /\ run.error = "ChainError"
        /\ run.result = << >>
        /\ remoteCalls = 0
        /\ attempt = 0 /\ lastOutcome = "none"
        /\ run.rpcUrl = ""

\* a run on a supported network with provider "alchemy" and a blank key
\* has ended
C14_Witness ==
    /\ Done
    /\ params.network = "mainnet"
    /\ params.rpcProvider = "alchemy"
    /\ params.alchemyApiKey = " "
    /\ run.message = "NoAlchemyKey"

(***************************************************************************)
(* C17  Backend selection, as claimed: when the sync command has a         *)
(* non-empty Alchemy API key from the profile or the environment, the run  *)
(* reads through the Alchemy endpoint; with no key it reads through the    *)
(* public endpoint.                                                        *)
(***************************************************************************)
\* the run was started by the sync command, which names no provider
FromSync == params.rpcProvider = "unset"

C17_SyncBackend ==
    (FromSync /\ run.pc \notin {"start", "done"}) =>
        run.rpcUrl = (IF params.alchemyApiKey # "unset" THEN "alchemy" ELSE "public")

(***************************************************************************)
(* C18  findBlockAtOrAfter returns the lowest block whose timestamp is at  *)
(* or after the target whenever the chain has such a block: fromBlock for  *)
(* the start of fromDate and, when the `to` boundary is searched, the      *)
(* block after toBlock for the second after the end of toDate.             *)
(***************************************************************************)
\* the snapshot has a block at or after the target time
HasBlockAtOrAfter(target) == \E i \in DOMAIN ledger.steps : ledger.steps[i].time >= target

\* the lowest such block: the first block of the earliest such step
LowestAtOrAfter(target) ==
    LET at == CHOOSE i \in DOMAIN ledger.steps :
                /\ ledger.steps[i].time >= target
                /\ \A j \in DOMAIN ledger.steps : ledger.steps[j].time >= target => i <= j
    IN  ledger.steps[at].start

\* the search for the `from` boundary has returned
FromSearched ==
    run.pc \in {"probeTo", "decimals", "symbol", "incoming", "outgoing", "timestamps"}
        \/ Succeeded

\* the search for the `to` boundary has run and returned
ToSearched ==
    /\ RangeResolved \/ Succeeded
    /\ EndOfDay(params.toDate) < BlockTimestamp(ledger, HeadNumber(ledger))

C18_LowestBlock ==
    /\ (FromSearched /\ HasBlockAtOrAfter(StartOfDay(params.fromDate))) =>
          run.fromBlock = LowestAtOrAfter(StartOfDay(params.fromDate))
    /\ ToSearched => run.toBlock + 1 = LowestAtOrAfter(EndOfDay(params.toDate) + 1)

\* the head block is the only block at or after the start of fromDate and
\* the search has probed its way to it
C18_Witness ==
    /\ FromSearched
    /\ HeadNumber(ledger) = MaxBlock
    /\ run.fromBlock = HeadNumber(ledger)
    /\ BlockTimestamp(ledger, run.fromBlock) >= StartOfDay(params.fromDate)
    /\ BlockTimestamp(ledger, run.fromBlock - 1) < StartOfDay(params.fromDate)
    /\ sent.probeFrom >= 1

(***************************************************************************)
(* C19  findBlockAtOrAfter terminates: while it probes,                    *)
(* 0 <= left < right <= latestBlock and the probed block lies in           *)
(* [0, latestBlock - 1]; every probe that returns strictly shrinks         *)
(* right - left and a failed attempt leaves both ends alone, so a search   *)
(* without failed attempts sends at most latestBlock probes; with          *)
(* latestBlock = 0 no probe is sent and block 0 is returned.               *)
(***************************************************************************)
Probing == run.pc \in {"probeFrom", "probeTo"}

C19_SearchInvariant ==
    /\ Probing =>
          /\ 0 <= run.left /\ run.left < run.right
          /\ run.right <= run.latestBlock.number
          /\ (run.left + run.right) \div 2 \in 0..(run.latestBlock.number - 1)
    /\ (Probing /\ faults.calls = 0) =>
          sent[run.pc] + (run.right - run.left) <= run.latestBlock.number
    /\ faults.calls = 0 =>
          /\ sent.probeFrom <= HeadNumber(ledger)
          /\ sent.probeTo <= HeadNumber(ledger)
    /\ FromSearched => run.fromBlock \in 0..HeadNumber(ledger)
    /\ HeadNumber(ledger) = 0 =>
          /\ sent.probeFrom = 0 /\ sent.probeTo = 0
          /\ FromSearched => run.fromBlock = 0

C19_ProbeShrinks ==
    (Probing /\ run'.pc = run.pc) =>
        IF lastOutcome' = "ok"
        THEN /\ 0 <= run'.right - run'.left
             /\ run'.right - run'.left < run.right - run.left
        ELSE run'.left = run.left /\ run'.right = run.right

C19_SearchTerminates == []C19_SearchInvariant /\ [][C19_ProbeShrinks]_vars

\* a search over a chain of CHUNK_SIZE + 2 blocks is at its tenth probe
C19_Witness ==
    /\ run.pc = "probeFrom"
    /\ HeadNumber(ledger) = LongHead
    /\ sent.probeFrom = 9
    /\ run.right - run.left < 100

(***************************************************************************)
(* C20  When the end of toDate is at or after the head block's timestamp,  *)
(* toBlock is the head block and no probe is sent for the `to` boundary;   *)
(* otherwise toBlock is the block before the lowest block whose timestamp  *)
(* is after the end of toDate.                                             *)
(***************************************************************************)
C20_ToBoundary ==
    (RangeResolved \/ Succeeded) =>
        IF EndOfDay(params.toDate) >= BlockTimestamp(ledger, HeadNumber(ledger))
        THEN run.toBlock = HeadNumber(ledger) /\ sent.probeTo = 0
        ELSE run.toBlock = LowestAtOrAfter(EndOfDay(params.toDate) + 1) - 1

\* the `from` boundary was searched with probes, the `to` boundary is the
\* head block of a chain of several blocks
C20_Witness ==
    /\ run.pc = "decimals"
    /\ HeadNumber(ledger) = MaxBlock
    /\ EndOfDay(params.toDate) = BlockTimestamp(ledger, HeadNumber(ledger))
    /\ run.toBlock = HeadNumber(ledger)
    /\ sent.probeFrom > 0 /\ sent.probeTo = 0

(***************************************************************************)
(* C15  Once the block range is known and fromBlock > toBlock, the run     *)
(* has succeeded with no record and has sent no request for token          *)
(* decimals or symbol, no log query and no timestamp request; this holds   *)
(* for the range getTransferRecords resolves and for an inverted range     *)
(* handed to the log scan directly.                                        *)
(***************************************************************************)
C15_EmptyRangeShortCircuits ==
    ((RangeResolved \/ Succeeded) /\ run.fromBlock > run.toBlock) =>
        /\ Succeeded
        /\ run.result = << >>
        /\ sent.decimals = 0 /\ sent.symbol = 0
        /\ sent.incoming = 0 /\ sent.outgoing = 0
        /\ sent.timestamps = 0

\* getTransferRecords searched both boundaries of a day that lies before
\* the first block and returned with an empty range
C15_Witness ==
    /\ Succeeded
    /\ run.fromBlock > run.toBlock
    /\ sent.latest = 1
    /\ sent.probeFrom > 0 /\ sent.probeTo > 0
    /\ ledger.logs # {}

\* the positions of the rows that the running sync command has created
CreatedBySync == (sync.before + 1)..Len(odoo)

\* the lines of the running sync command that carry the import id
LinesWith(id) == {j \in 1..Len(sync.lines) : sync.lines[j].unique_import_id = id}

\* the rows that the running sync command has created with the import id
CreatedWith(id) == {k \in CreatedBySync : odoo[k].unique_import_id = id}

\* the second run repeats the date range of a first run that ended successfully
RepeatsSuccessfulRun ==
    /\ sync.runs = 2
    /\ sync.first.exit = "success"
    /\ sync.pc # "start" => sync.range = sync.first.range

(***************************************************************************)
(* C16  Every row a sync run creates belongs to one transfer of the run,   *)
(* carries ERC20- and that transfer's uniqueId as its import id, lies in   *)
(* the profile's journal, and has an import id that Odoo did not report as *)
(* existing; no two rows of one run share an import id; a run that ends    *)
(* successfully has created one row for every transfer whose import id     *)
(* was not reported; and a second run over the date range of a successful  *)
(* first run creates no row.                                               *)
(***************************************************************************)
C16_OdooDeduplication ==
    /\ \A k \in CreatedBySync :
        /\ odoo[k].unique_import_id \notin sync.existing
        /\ odoo[k].journal_id = sync.config.journalId
        /\ Cardinality(LinesWith(odoo[k].unique_import_id)) = 1
        /\ Cardinality(CreatedWith(odoo[k].unique_import_id)) = 1
        /\ \E i \in sync.range[1]..sync.range[2] :
              odoo[k].unique_import_id = << "ERC20-", TransferOf(i).uniqueId >>
    /\ (sync.pc = "done" /\ sync.exit = "success") =>
          \A j \in 1..Len(sync.lines) :
              sync.lines[j].unique_import_id \notin sync.existing =>
                  Cardinality(CreatedWith(sync.lines[j].unique_import_id)) = 1
    /\ RepeatsSuccessfulRun => CreatedBySync = {}

\* a second run over more than one lookup chunk has ended successfully after a first
\* run over the same date range that found some lines in Odoo and created the others
C16_Witness ==
    /\ RepeatsSuccessfulRun
    /\ sync.pc = "done" /\ sync.exit = "success"
    /\ Len(sync.lines) > DEDUP_CHUNK_SIZE
    /\ sync.first.created > 0 /\ sync.first.created < Len(sync.lines)
    /\ Cardinality(sync.existing) = Len(sync.lines)

\* the log queries of one direction that returned, in the order they returned
AnsweredAt(site) ==
    LET IsOfSite(query) == query.site = site
    IN  SelectSeq(run.answered, IsOfSite)

\* the results of a list of log queries, one after the other
RECURSIVE ConcatLogs(_)
ConcatLogs(queries) ==
    IF Len(queries) = 0 THEN << >> ELSE queries[1].logs \o ConcatLogs(Tail(queries))

\* the fetchTransfers call of the direction has returned its list
Returned(site) ==
    /\ run.fromBlock <= run.toBlock
    /\ \/ run.pc = "timestamps"
       \/ Succeeded /\ Len(run.answered) > 0
       \/ site = "incoming" /\ run.pc = "outgoing"

\* the list that the fetchTransfers call of the direction returned
ReturnedLogs(site) == IF site = "incoming" THEN run.incoming ELSE run.logs

(***************************************************************************)
(* C21  In either direction the answered log queries of one fetchTransfers *)
(* call start at fromBlock, each begins one block after the end of the one *)
(* before it and none reaches beyond toBlock; while the call runs its list *)
(* is the concatenation of the answers so far; once it has returned, the   *)
(* last query ended at toBlock and the returned list is the concatenation  *)
(* of all answers, empty ones included.                                    *)
(***************************************************************************)
C21_ChunksCoverRange ==
    \A site \in {"incoming", "outgoing"} :
        LET queries == AnsweredAt(site)
        IN  /\ Len(queries) > 0 => queries[1].fromBlock = run.fromBlock
            /\ \A i \in 1..Len(queries) :
                /\ queries[i].fromBlock <= queries[i].toBlock
                /\ queries[i].toBlock <= run.toBlock
                /\ i < Len(queries) => queries[i + 1].fromBlock = queries[i].toBlock + 1
            /\ run.pc = site =>
                /\ run.logs = ConcatLogs(queries)
                /\ run.current = IF Len(queries) = 0 THEN run.fromBlock
                                 ELSE queries[Len(queries)].toBlock + 1
            /\ Returned(site) =>
                /\ Len(queries) > 0
                /\ queries[Len(queries)].toBlock = run.toBlock
                /\ ReturnedLogs(site) = ConcatLogs(queries)

\* a run has succeeded whose first incoming chunk held no log and whose second held one
C21_Witness ==
    /\ Succeeded
    /\ Len(AnsweredAt("incoming")) = 2
    /\ AnsweredAt("incoming")[1].logs = << >>
    /\ AnsweredAt("incoming")[2].logs # << >>
    /\ Len(AnsweredAt("outgoing")) = 2

\* the number of blocks a log query asks for, both ends counted
BlocksSpanned(query) == query.toBlock - query.fromBlock + 1

(***************************************************************************)
(* C22  Every answered log query spans at most CHUNK_SIZE blocks, both     *)
(* ends counted, and once the fetchTransfers call of a direction has       *)
(* returned, the number of its answered queries equals totalChunks.        *)
(***************************************************************************)
C22_ChunkSize ==
    /\ \A i \in 1..Len(run.answered) : BlocksSpanned(run.answered[i]) <= CHUNK_SIZE
    /\ \A site \in {"incoming", "outgoing"} :
          (Returned(site) /\ faults.calls = 0) =>
              /\ Len(AnsweredAt(site)) = run.totalChunks
              /\ sent[site] = run.totalChunks

\* this step sends a log query of the direction
SendsLogQuery(site) == sent'[site] > sent[site]

\* the queries of a direction are counted, and the outgoing direction is not
\* entered before the incoming direction has been read up to toBlock
C23_OneDirectionAtATime ==
    /\ \A site \in {"incoming", "outgoing"} : Len(AnsweredAt(site)) <= sent[site]
    /\ sent["outgoing"] > 0 =>
          /\ Len(AnsweredAt("incoming")) > 0
          /\ AnsweredAt("incoming")[Len(AnsweredAt("incoming"))].toBlock = run.toBlock

\* a step that sends a log query sends one, for the chunk that begins at current, in the
\* direction the run is in; the run moves to the next chunk only when the attempt was
\* answered, repeats the chunk when it failed and may be retried, and ends in failure
\* with no further chunk when it failed on its last attempt
C23_ChunkStep ==
    \A site \in {"incoming", "outgoing"} :
        SendsLogQuery(site) =>
            /\ run.pc = site
            /\ sent'[site] = sent[site] + 1
            /\ \A other \in {"incoming", "outgoing"} \ {site} : sent'[other] = sent[other]
            /\ IF lastOutcome' = "ok"
               THEN /\ Len(run'.answered) = Len(run.answered) + 1
                    /\ run'.answered[Len(run'.answered)].fromBlock = run.current
                    /\ run'.pc = site => run'.current = ChunkEnd(run.current, run.toBlock) + 1
               ELSE /\ run'.answered = run.answered
                    /\ \/ run'.pc = site /\ run'.current = run.current
                                         /\ attempt' <= RPC_RETRY_TIMES
                       \/ run'.pc = "done" /\ run'.exit = "fail"
                                           /\ attempt' = RPC_RETRY_TIMES + 1

(***************************************************************************)
(* C23  Within one direction the log queries are made one after the other: *)
(* each attempt is for the chunk at which the loop stands, the loop moves  *)
(* to the next chunk only after an attempt of the current chunk was        *)
(* answered, a failed attempt is repeated for the same chunk, and after    *)
(* the last failed attempt no further chunk is asked for.                  *)
(***************************************************************************)
C23_SequentialChunks == []C23_OneDirectionAtATime /\ [][C23_ChunkStep]_vars

\* the second incoming chunk was answered after an attempt of a log query had failed
C23_Witness ==
    /\ Len(AnsweredAt("incoming")) = 2
    /\ faults.logQuery > 0
    /\ sent["incoming"] > 2

\* the block numbers of the deduplicated logs
BlocksOfRawLogs == {run.rawLogs[i].blockNumber : i \in 1..Len(run.rawLogs)}

\* timestamp resolution has begun
Resolving == run.pc = "timestamps" \/ (Succeeded /\ Len(run.rawLogs) > 0)

\* the blocks to resolve are the distinct blocks of the deduplicated logs, each listed
\* once; a block is never both resolved and being fetched; a run without a failed
\* attempt that has resolved every block has sent one request per distinct block
C24_DistinctBlocks ==
    Resolving =>
        /\ {run.uniqueBlocks[i] : i \in 1..Len(run.uniqueBlocks)} = BlocksOfRawLogs
        /\ \A i, j \in 1..Len(run.uniqueBlocks) :
              run.uniqueBlocks[i] = run.uniqueBlocks[j] => i = j
        /\ DOMAIN run.timestampByBlock \subseteq BlocksOfRawLogs
        /\ run.inFlight \cap DOMAIN run.timestampByBlock = {}
        /\ faults.calls = 0 =>
              sent["timestamps"] = Cardinality(DOMAIN run.timestampByBlock)
        /\ (Succeeded /\ faults.calls = 0) =>
              /\ DOMAIN run.timestampByBlock = BlocksOfRawLogs
              /\ sent["timestamps"] = Cardinality(BlocksOfRawLogs)

\* a step that changes the block-to-timestamp mapping within one run is one answered
\* request, adds one key that was not there, and keeps every other entry
C24_WriteOnce ==
    (run.pc = "timestamps" /\ run'.timestampByBlock # run.timestampByBlock) =>
        /\ sent'["timestamps"] = sent["timestamps"] + 1
        /\ lastOutcome' = "ok"
        /\ \E b \in run.inFlight :
              /\ b \notin DOMAIN run.timestampByBlock
              /\ DOMAIN run'.timestampByBlock = DOMAIN run.timestampByBlock \cup {b}
              /\ run'.timestampByBlock[b] = BlockTimestamp(ledger, b)
        /\ \A x \in DOMAIN run.timestampByBlock :
              run'.timestampByBlock[x] = run.timestampByBlock[x]

(***************************************************************************)
(* C24  Timestamps are asked for once per distinct block of the            *)
(* deduplicated logs, not once per log: the list of blocks to resolve has  *)
(* no repeats, a run without a failed attempt sends exactly one request    *)
(* per distinct block, and every key of the block-to-timestamp mapping is  *)
(* written once, by one answered request, and never overwritten.           *)
(***************************************************************************)
C24_OneFetchPerBlock == []C24_DistinctBlocks /\ [][C24_WriteOnce]_vars

\* a run without a failed attempt has succeeded with two logs of one block and one
\* timestamp request
C24_Witness ==
    /\ Succeeded
    /\ faults.calls = 0
    /\ Len(run.rawLogs) = 2
    /\ Cardinality(BlocksOfRawLogs) = 1
    /\ sent["timestamps"] = 1
    /\ Len(run.result) = 2

\* a timestamp fetch has failed on its last attempt
FetchExhausted ==
    \E b \in DOMAIN run.fetchAttempt : run.fetchAttempt[b] = RPC_RETRY_TIMES + 1

\* at most TimestampConcurrency fetches are in flight, each block in flight has failed
\* at most RPC_RETRY_TIMES times, and a fetch that failed on its last attempt has ended
\* the run in failure with no record
C25_InFlightBound ==
    /\ Cardinality(run.inFlight) <= TimestampConcurrency
    /\ run.pc = "timestamps" =>
          /\ run.inFlight # {}
          /\ DOMAIN run.fetchAttempt = run.inFlight
          /\ \A b \in run.inFlight : run.fetchAttempt[b] <= RPC_RETRY_TIMES
          /\ run.started - Cardinality(DOMAIN run.timestampByBlock)
                = Cardinality(run.inFlight)
    /\ FetchExhausted =>
          /\ Failed
          /\ run.result = << >>

\* a failed attempt of one block's fetch counts against that block only
C25_OwnBudget ==
    (run.pc = "timestamps" /\ lastOutcome' # "ok" /\ sent'["timestamps"] > sent["timestamps"]) =>
        \E b \in run.inFlight :
            /\ run'.fetchAttempt[b] = run.fetchAttempt[b] + 1
            /\ \A x \in run.inFlight \ {b} : run'.fetchAttempt[x] = run.fetchAttempt[x]
            /\ run'.timestampByBlock = run.timestampByBlock
            /\ IF run.fetchAttempt[b] < RPC_RETRY_TIMES
               THEN run'.pc = "timestamps" /\ run'.inFlight = run.inFlight
               ELSE run'.pc = "done" /\ run'.exit = "fail" /\ run'.result = << >>

(***************************************************************************)
(* C25  While timestamps are resolved at most 4 fetches are in flight;     *)
(* every fetch has its own count of failed attempts and is retried up to   *)
(* RPC_RETRY_TIMES times; when one block's fetch fails on all its attempts *)
(* the run fails and returns no record.                                    *)
(***************************************************************************)
C25_BoundedConcurrency == []C25_InFlightBound /\ [][C25_OwnBudget]_vars

\* with more blocks to resolve than may be fetched at once, a fifth fetch was started
\* after another had returned, and then one block's fetch failed on all its attempts
C25_Witness ==
    /\ Failed
    /\ FetchExhausted
    /\ Len(run.uniqueBlocks) > TimestampConcurrency
    /\ run.started > TimestampConcurrency
    /\ Cardinality(run.inFlight) = TimestampConcurrency
    /\ run.timestampByBlock # << >>

\* what one direction yields when its chunks are read one after the other
RECURSIVE ChunkedLogs(_, _, _)
ChunkedLogs(current, toBlock, args) ==
    IF current > toBlock THEN << >>
    ELSE queryTransferLogs(ledger, order, current, ChunkEnd(current, toBlock), args)
            \o ChunkedLogs(ChunkEnd(current, toBlock) + 1, toBlock, args)

\* the records that the ledger, the node's listing and the parameters determine for
\* the resolved block range, with no reference to the course of the retrieval
RecordsOfLedger ==
    LET incoming == ChunkedLogs(run.fromBlock, run.toBlock, [to |-> params.walletAddress])
        outgoing == ChunkedLogs(run.fromBlock, run.toBlock, [from |-> params.walletAddress])
        deduped == Dedupe(incoming \o outgoing, << >>)
        blocks == {deduped[i].blockNumber : i \in 1..Len(deduped)}
    IN  MapFilterSort(deduped, [b \in blocks |-> BlockTimestamp(ledger, b)],
                      run.networkKey, run.decimals, run.symbol, params.walletAddress)

(***************************************************************************)
(* C26  The records of a successful run and their order are those that the *)
(* ledger, the node's listing of the logs and the parameters determine,    *)
(* in whatever order the timestamp fetches returned and whichever attempts *)
(* had to be repeated.                                                     *)
(***************************************************************************)
C26_RetrievalOrderIrrelevant ==
    (Succeeded /\ run.fromBlock <= run.toBlock) => run.result = RecordsOfLedger

\* a run has succeeded with more records than fetches may be in flight, and some
\* timestamp arrived before that of a block listed earlier
C26_Witness ==
    /\ Succeeded
    /\ Len(run.result) > TimestampConcurrency
    /\ run.overtaken

\* the rows of Odoo in the profile's company and journal
ProfileRows ==
    LET OfProfile(row) ==
            /\ row.journal_id = sync.config.journalId
            /\ sync.config.companyId # "unset" => row.company_id = sync.config.companyId
    IN  SelectSeq(odoo, OfProfile)

\* the import ids of the rows in the profile's company and journal
ProfileImportIds ==
    LET rows == ProfileRows
    IN  {rows[k].unique_import_id : k \in 1..Len(rows)}

(***************************************************************************)
(* C27  Whatever sync runs came before, over the same or an overlapping    *)
(* date range, successful or failed between two creation batches, no two   *)
(* rows of the profile's company and journal carry the same import id, and *)
(* when a run has ended successfully every transfer of its date range has  *)
(* a row there.                                                            *)
(***************************************************************************)
C27_NoDuplicateLines ==
    LET ids == ProfileImportIds
    IN  /\ Cardinality(ids) = Len(ProfileRows)
        /\ (sync.pc = "done" /\ sync.exit = "success") =>
              \A i \in sync.range[1]..sync.range[2] :
                  << "ERC20-", TransferOf(i).uniqueId >> \in ids

\* a run over another, overlapping date range has ended successfully and has created
\* rows, after a first run that failed when one creation batch had been written
C27_Witness ==
    /\ sync.runs = 2
    /\ sync.pc = "done" /\ sync.exit = "success"
    /\ sync.first.exit = "failure"
    /\ sync.first.created = CREATE_BATCH_SIZE
    /\ sync.range # sync.first.range
    /\ Len(odoo) > sync.before
    /\ Len(sync.lines) >= CREATE_BATCH_SIZE

\* no two profiles of the store have the same name
NamesDistinct(s) ==
    \A i, j \in 1..Len(s.profiles) : s.profiles[i].name = s.profiles[j].name => i = j

\* the latest setup command asked for a journal whose name is that of another profile
AskedForTakenName ==
    /\ setup.action \in {"add", "edit"}
    /\ \E i \in 1..Len(setup.before.profiles) :
          /\ setup.before.profiles[i].name = Trim(setup.journalName)
          /\ setup.before.profiles[i].name # setup.target

(***************************************************************************)
(* C28  The profile names of the saved store are pairwise distinct after   *)
(* every sequence of add, edit and remove; an add or edit whose trimmed    *)
(* journal name is the name of another profile of the store fails and      *)
(* leaves the file as it was.                                              *)
(***************************************************************************)
C28_UniqueProfileNames ==
    /\ NamesDistinct(store)
    /\ AskedForTakenName =>
          /\ setup.exit = "DuplicateProfile"
          /\ store = setup.before

\* an edit of one of three profiles asked for a journal whose name, once trimmed, is
\* that of another profile, and failed
C28_Witness ==
    /\ setup.action = "edit"
    /\ AskedForTakenName
    /\ setup.journalName # Trim(setup.journalName)
    /\ Len(store.profiles) = MaxProfiles
    /\ setup.exit = "DuplicateProfile"

\* the default of a store names one of its profiles, and is left out of an empty store
DefaultValid(s) ==
    IF Len(s.profiles) = 0 THEN s.defaultProfile = "unset"
    ELSE HasProfile(s.profiles, s.defaultProfile)

\* the latest setup command removed the profile that was the default
RemovedTheDefault ==
    /\ setup.action = "remove"
    /\ setup.exit = "saved"
    /\ setup.before.defaultProfile = setup.target

RECURSIVE AskedIds(_)
AskedIds(asked) ==
    IF Len(asked) = 0 THEN << >>
    ELSE AskedIds(SubSeq(asked, 1, Len(asked) - 1)) \o asked[Len(asked)].ids

\* a lookup request of this run was refused
LookupRefused == sync.requests > Len(sync.asked)

\* fetchExistingImportIds has returned its set to the caller
LookupReturned ==
    /\ sync.pc \in {"create", "done"}
    /\ Len(sync.lines) > 0
    /\ ~LookupRefused

\* C30: the lookup asks for the ids in consecutive pieces of the input, each of at least
\* one and at most chunkSize ids, which together are the input once it has returned, so
\* every id is asked for in exactly one request; an empty input makes no request; the
\* set it returns is the union of the ids the requests reported; a refused request ends
\* the call in failure with nothing looked up or written after it.
C30_ChunkedLookup ==
    LET ids == importIds(sync)
        asked == sync.asked
        queried == AskedIds(asked)
        chunkSize == chunkSizeOf(sync.chunkSize)
    IN  /\ Len(queried) <= Len(ids)
        /\ queried = SubSeq(ids, 1, Len(queried))
        /\ \A k \in 1..Len(asked) :
              /\ Len(asked[k].ids) >= 1
              /\ Len(asked[k].ids) <= chunkSize
        /\ Len(ids) = 0 => sync.requests = 0
        /\ sync.requests \in {Len(asked), Len(asked) + 1}
        /\ sync.existing = UNION {asked[k].reported : k \in 1..Len(asked)}
        /\ LookupReturned => queried = ids
        /\ LookupRefused =>
              /\ sync.pc = "done"
              /\ sync.exit = "failure"
              /\ sync.newLines = << >>
              /\ sync.created = 0

\* a lookup of more ids than one request carries has returned, some of them reported
C30_Witness ==
    /\ LookupReturned
    /\ Len(sync.asked) >= 2
    /\ Len(sync.asked[Len(sync.asked)].ids) < chunkSizeOf(sync.chunkSize)
    /\ sync.existing # {}
    /\ sync.existing # {sync.lines[k].unique_import_id : k \in 1..Len(sync.lines)}

====
